---- MODULE Spec2Model ----
(***************************************************************************)
(* Operation tracking of @neonflare/mcp: the MCPTracker (core/tracker.ts)  *)
(* and the handler wrapper that trackmcp installs over                     *)
(* server.setRequestHandler (index.ts).                                    *)
(*                                                                         *)
(* The tracker state is the live-span map (activeSpans), the event log     *)
(* (telemetryEvents) and the spans the tracing backend has handed out      *)
(* (spans).  Tracker methods are operators from a tracker state to the     *)
(* tracker state they leave behind; the actions apply them.  Wrapped       *)
(* invocations are processes with one suspension point, the await of the   *)
(* original handler; a client calls the tracker's public methods directly. *)
(***************************************************************************)
EXTENDS Integers, Sequences, FiniteSets, TLC

\* ---------------------------------------------------------------- bounds
MaxInvocations == 2
MaxSpans == 2
MaxTime == 1
MaxDuration == 1
MaxHooks == 2
MaxPieces == 2
MaxClassified == 2
StormThreshold == 2
MaxCount == 3
GapMs == 40000
MaxGaps == 3
Headroom == 2
MaxProviders == 2
MaxRecorded == 3
MaxRandom == 2
MaxServers == 2
MaxTracked == 3
MaxCalls == 2
MaxManagers == 2

\* ------------------------------------------------------ program constants
\* addTelemetryEvent keeps the most recent maxEvents events
maxEvents == 1000
\* calculateRequestsPerSecond: window in ms and divisor in s
RpsWindowMs == 60000
RpsWindowSeconds == 60
\* 'mcp.tool.ai_intent' is the intent cut to this many characters
IntentLimit == 200
\* MemoryTelemetryProvider.maxEvents
MemoryMaxEvents == 10000
\* ConsoleTelemetryProvider: over ConsoleMaxEvents events, the last
\* ConsoleKeptEvents are kept
ConsoleMaxEvents == 1000
ConsoleKeptEvents == 500
\* the providers' requests per second: window in ms and divisor in s
ProviderRpsWindowMs == 60000
ProviderRpsWindowSeconds == 60

VARIABLES
    now,              \* Date.now()
    config,           \* the config given to trackmcp / new MCPTracker
    randomStream,     \* the values Math.random() yields, in call order
    randomCalls,      \* number of Math.random() calls made so far
    activeSpans,      \* MCPTracker.activeSpans: operationId -> span
    telemetryEvents,  \* MCPTracker.telemetryEvents
    spans,            \* the backend's spans, a span is its index here
    inv,              \* the wrapped invocations
    contexts,         \* operation contexts the client has created
    client,           \* the client's last direct call on the tracker
    hooks,            \* MCPTracker.hooks
    run,              \* the execute...Hooks call in progress
    injector,         \* ContextInjectionMiddleware.config
    processed,        \* the last call on the context-injection functions
    errorHandler,     \* MCPErrorHandler's fields
    handled,          \* the last handleError call
    providers,        \* the sinks of the telemetry manager / composite sink
    memoryOptions,    \* the argument of new MemoryTelemetryProvider(...)
    telemetryCall,    \* the last call on the telemetry manager or a sink
    servers,          \* the Server objects and what trackmcp left on them
    trackers,         \* the MCPTracker of every trackmcp call, in call order
    serverCall,       \* the last call on a server
    calls,            \* the calls of MCPInstrumentation's instrument* methods
    methodContexts,   \* MCPInstrumentation.methodContexts
    boundaryCall,     \* the last call on the MCPErrorBoundary
    configuration,    \* the last construction from a configuration
    managers,         \* the DefaultTelemetryManagers made, in order
    globalTelemetryManager,  \* manager.ts: the global instance, 0 for null
    managerCall,      \* the last call on the global telemetry manager
    timer,            \* a PerformanceTimer: startTime and marks
    timerCall         \* the last call on the timer

hookVars == <<hooks, run>>

injectorVars == <<injector, processed>>

errorVars == <<errorHandler, handled>>

telemetryVars == <<providers, memoryOptions, telemetryCall>>

serverVars == <<servers, trackers, serverCall>>

instrumentationVars == <<calls, methodContexts>>

boundaryVars == <<boundaryCall>>

configurationVars == <<configuration>>

managerVars == <<managers, globalTelemetryManager, managerCall>>

timerVars == <<timer, timerCall>>

\* the state of the utilities
utilityVars == <<boundaryVars, configurationVars, managerVars, timerVars>>

\* the state of the instrumentation API and of the utilities
apiVars == <<instrumentationVars, utilityVars>>

vars == <<now, config, randomStream, randomCalls, activeSpans,
          telemetryEvents, spans, inv, contexts, client,
          hookVars, injectorVars, errorVars, telemetryVars, serverVars, apiVars>>

\* ------------------------------------------------------------ JS values
Undefined == "undefined"

\* the last n elements of a sequence: slice(-n)
LastOf(s, n) ==
    IF Len(s) > n THEN SubSeq(s, Len(s) - n + 1, Len(s)) ELSE s

\* undefined where an object stands otherwise; x?.k of it is undefined
NoObject == << >>

\* the truthiness of strings
Truthy(v) == v # Undefined /\ v # ""

\* { ...b, ...a }: a's keys win
Spread(b, a) == a @@ b

\* { [k]: _, ...rest } = f
Without(f, k) == [x \in DOMAIN f \ {k} |-> f[x]]

\* the length of the texts the model uses
TextLength(s) == IF s = "because" THEN 7 ELSE 0

\* s.substring(0, n)
Substring(s, n) == IF TextLength(s) <= n THEN s ELSE <<s, n>>

\* ----------------------------------------------------------- the inputs
\* Error objects a handler throws; the string is the object's identity.
ErrorObjects == {"err-coded"}

ErrorCode(e) == IF e = "err-coded" THEN "ENOENT" ELSE Undefined

ErrorMessage(e) ==
    CASE e = "err-plain" -> "Tool execution failed"
      [] e = "err-coded" -> "not found: widget"
      [] OTHER -> "backend failure"

\* what a failing backend call throws
BackendError == "err-backend"

HandlerResults == {"result-a"}

\* what the original handler does once it settles
HandlerOutcomes ==
    [kind : {"return"}, value : HandlerResults] \cup
    [kind : {"throw"}, value : ErrorObjects]

\* contextInjection.parameterName: the default
ParameterNames == {"context"}

\* request.params.arguments: a map from argument names to strings
ArgumentSets ==
    { [query |-> "x", context |-> "because"] }

\* the requests the server dispatches: {id?, method, params: {arguments?}}
Requests ==
    [id : {"req-1"}, method : {"tools/call"}, arguments : ArgumentSets] \cup
    { [id |-> Undefined, method |-> "tools/list", arguments |-> NoObject] }

\* the places where a backend call can throw
StartFaults == {"startSpan", "spanContext"}
EndFaults == {"setStatus", "setAttributes", "end", "spanContext"}
WrapFaults == {"setAttributes"}
NoFault == "none"

\* ------------------------------------------------------ tracing backend
\* tracer.startSpan(name, {kind, attributes})
startSpan(ss, name, attributes) ==
    Append(ss, [name |-> name, attributes |-> attributes,
                status |-> [code |-> "UNSET", message |-> Undefined],
                ended |-> 0])

\* span.setStatus(status)
setStatus(ss, s, status) == [ss EXCEPT ![s].status = status]

\* span.setAttributes(attributes)
setAttributes(ss, s, attributes) ==
    [ss EXCEPT ![s].attributes = Spread(@, attributes)]

\* span.end()
end(ss, s) == [ss EXCEPT ![s].ended = @ + 1]

\* span.spanContext()
spanContext(s) == [traceId |-> s, spanId |-> s]

\* ------------------------------------------------------------ MCPTracker
\* A tracker state is [activeSpans, telemetryEvents, spans].
Tracker(a, e, ss) == [activeSpans |-> a, telemetryEvents |-> e, spans |-> ss]

\* generateOperationId: `op_${Date.now()}_${random}`
generateOperationId(t, random) == <<"op", t, random>>

\* createOperationContext(method, requestId, params)
createOperationContext(method, requestId, params, t, random) ==
    [operationId |-> generateOperationId(t, random),
     startTime |-> t,
     metadata |-> [method |-> method, requestId |-> requestId,
                   params |-> params]]

\* addTelemetryEvent keeping the first maxEvents events: slice(0, maxEvents)
addTelemetryEvent_KeepOldest(events, event) ==
    LET pushed == Append(events, event)
    IN  IF Len(pushed) > maxEvents
        THEN SubSeq(pushed, 1, maxEvents)
        ELSE pushed

\* addTelemetryEvent that stores a request_end event with the time of the
\* push in the place of the duration it was given
addTelemetryEvent_Restamped(events, event) ==
    LET stored == IF event.type = "request_end"
                  THEN [event EXCEPT !.data.duration = event.timestamp + 1]
                  ELSE event
        pushed == Append(events, stored)
    IN  IF Len(pushed) > maxEvents THEN LastOf(pushed, maxEvents) ELSE pushed

\* addTelemetryEvent pushing the event twice
addTelemetryEvent_Twice(events, event) == Append(Append(events, event), event)

\* addTelemetryEvent: push, then keep the last maxEvents events
addTelemetryEvent(events, event) ==
    LET pushed == Append(events, event)
    IN  IF Len(pushed) > maxEvents
        THEN SubSeq(pushed, Len(pushed) - maxEvents + 1, Len(pushed))
        ELSE pushed

\* extractMethodFromOperationId
extractMethodFromOperationId(operationId) == "unknown"

\* the attributes startMCPSpan opens the span with
StartAttributes(cfg, method, context) ==
    Spread(
      Spread(
        Spread(
          Spread([mcp_operation_id |-> context.operationId,
                  mcp_method |-> method,
                  mcp_start_time |-> context.startTime],
                 IF Truthy(cfg.projectId)
                 THEN [neonflare_project_id |-> cfg.projectId] ELSE << >>),
          cfg.defaultAttributes),
        IF Truthy(context.metadata.requestId)
        THEN [mcp_request_id |-> context.metadata.requestId] ELSE << >>),
      IF "aiContext" \in DOMAIN context.metadata
         /\ Truthy(context.metadata.aiContext)
      THEN [mcp_tool_ai_context |-> context.metadata.aiContext] ELSE << >>)

\* startMCPSpan that leaves the projectId of the request_start event undefined
startMCPSpan_NoProjectId(T, cfg, method, context, t, fault) ==
    IF fault = "startSpan"
    THEN [tracker |-> T, span |-> 0, threw |-> TRUE]
    ELSE
      LET ss == startSpan(T.spans, method, StartAttributes(cfg, method, context))
          span == Len(ss)
          active == (context.operationId :> span) @@ T.activeSpans
      IN  IF fault = "spanContext"
          THEN [tracker |-> Tracker(active, T.telemetryEvents, ss),
                span |-> span, threw |-> TRUE]
          ELSE [tracker |->
                  Tracker(active,
                          addTelemetryEvent(T.telemetryEvents,
                            [type |-> "request_start",
                             timestamp |-> t,
                             data |-> [operationId |-> context.operationId,
                                       method |-> method,
                                       metadata |-> context.metadata,
                                       projectId |-> Undefined],
                             spanContext |-> spanContext(span)]),
                          ss),
                span |-> span, threw |-> FALSE]

\* startMCPSpan(method, context); fault names the backend call that throws.
\* Yields the tracker state left behind, the span, and whether it threw.
startMCPSpan(T, cfg, method, context, t, fault) ==
    IF fault = "startSpan"
    THEN [tracker |-> T, span |-> 0, threw |-> TRUE]
    ELSE
      LET ss == startSpan(T.spans, method, StartAttributes(cfg, method, context))
          span == Len(ss)
          active == (context.operationId :> span) @@ T.activeSpans
      IN  IF fault = "spanContext"
          THEN [tracker |-> Tracker(active, T.telemetryEvents, ss),
                span |-> span, threw |-> TRUE]
          ELSE [tracker |->
                  Tracker(active,
                          addTelemetryEvent(T.telemetryEvents,
                            [type |-> "request_start",
                             timestamp |-> t,
                             data |-> [operationId |-> context.operationId,
                                       method |-> method,
                                       metadata |-> context.metadata,
                                       projectId |-> cfg.projectId],
                             spanContext |-> spanContext(span)]),
                          ss),
                span |-> span, threw |-> FALSE]

\* addMethodSpecificAttributes: switches on the method extracted from the id
addMethodSpecificAttributes(attributes, operationId, result) ==
    LET method == extractMethodFromOperationId(operationId)
        has(k) == result.data # Undefined /\ k \in DOMAIN result.data
    IN  CASE method = "tools/list" /\ has("tools") ->
               Spread(attributes, [mcp_tools_count |-> result.data.tools])
          [] method = "resources/list" /\ has("resources") ->
               Spread(attributes, [mcp_resources_count |-> result.data.resources])
          [] method = "prompts/list" /\ has("prompts") ->
               Spread(attributes, [mcp_prompts_count |-> result.data.prompts])
          [] method = "tools/call" /\ has("tool") ->
               Spread(attributes, [mcp_tool_name |-> result.data.tool])
          [] method = "resources/read" /\ has("uri") ->
               Spread(attributes, [mcp_resource_uri |-> result.data.uri])
          [] method = "prompts/get" /\ has("name") ->
               Spread(attributes, [mcp_prompt_name |-> result.data.name])
          [] OTHER -> attributes

\* the attributes endMCPSpan sets before the method-specific ones
EndAttributes(operationId, result) ==
    Spread([mcp_method |-> extractMethodFromOperationId(operationId),
            mcp_success |-> result.success,
            mcp_duration_ms |-> result.duration],
           IF ~result.success /\ result.error # NoObject
           THEN [mcp_error_code |-> result.error.code,
                 mcp_error_message |-> result.error.message]
           ELSE << >>)

\* a delete that empties the map
deleteSpan_All(active, operationId) == << >>

\* a delete that removes nothing
deleteSpan_Keep(active, operationId) == active

\* activeSpans.delete(operationId)
deleteSpan(active, operationId) == Without(active, operationId)

\* endMCPSpan past its lookup, for an operation id that has a live span;
\* fault names the backend call that throws.
endLiveSpan(T, cfg, operationId, result, fault) ==
    LET span == T.activeSpans[operationId]
        status == IF ~result.success /\ result.error # NoObject
                  THEN [code |-> "ERROR", message |-> result.error.message]
                  ELSE [code |-> "OK", message |-> Undefined]
        attributes == addMethodSpecificAttributes(
                        EndAttributes(operationId, result), operationId, result)
        s1 == setStatus(T.spans, span, status)
        s2 == setAttributes(s1, span, attributes)
        s3 == end(s2, span)
        active == deleteSpan(T.activeSpans, operationId)
    IN  CASE fault = "setStatus" -> [tracker |-> T, threw |-> TRUE]
          [] fault = "setAttributes" ->
               [tracker |-> Tracker(T.activeSpans, T.telemetryEvents, s1),
                threw |-> TRUE]
          [] fault = "end" ->
               [tracker |-> Tracker(T.activeSpans, T.telemetryEvents, s2),
                threw |-> TRUE]
          [] fault = "spanContext" ->
               [tracker |-> Tracker(active, T.telemetryEvents, s3),
                threw |-> TRUE]
          [] OTHER ->
               [tracker |->
                  Tracker(active,
                          addTelemetryEvent(T.telemetryEvents,
                            [type |-> "request_end",
                             timestamp |-> result.timestamp,
                             data |-> [operationId |-> operationId,
                                       success |-> result.success,
                                       duration |-> result.duration,
                                       error |-> result.error,
                                       projectId |-> cfg.projectId],
                             spanContext |-> spanContext(span)]),
                          s3),
                threw |-> FALSE]

\* endMCPSpan without the early return: span.setStatus on undefined throws
endMCPSpan_Unguarded(T, cfg, operationId, result, fault) ==
    IF operationId \notin DOMAIN T.activeSpans
    THEN [tracker |-> T, threw |-> TRUE]
    ELSE endLiveSpan(T, cfg, operationId, result, fault)

\* endMCPSpan(operationId, result): nothing happens without a live span
endMCPSpan(T, cfg, operationId, result, fault) ==
    IF operationId \notin DOMAIN T.activeSpans
    THEN [tracker |-> T, threw |-> FALSE]
    ELSE endLiveSpan(T, cfg, operationId, result, fault)

\* the request_end events of a log
RequestEnds(events) ==
    SelectSeq(events, LAMBDA e : e.type = "request_end")

\* sum of the durations of a sequence of events (reduce)
RECURSIVE SumDurations(_)
SumDurations(events) ==
    IF events = << >> THEN 0
    ELSE events[1].data.duration + SumDurations(Tail(events))

\* calculateAverageDuration: a quotient, kept as numerator / denominator;
\* an event counts when e.data.duration is truthy
calculateAverageDuration(events) ==
    LET completedRequests ==
          SelectSeq(events,
            LAMBDA e : e.type = "request_end" /\ e.data.duration # 0)
    IN  IF Len(completedRequests) = 0
        THEN [num |-> 0, den |-> 1]
        ELSE [num |-> SumDurations(completedRequests),
              den |-> Len(completedRequests)]

\* calculateRequestsPerSecond, as numerator / denominator
calculateRequestsPerSecond(events, t) ==
    LET recentEvents ==
          SelectSeq(events,
            LAMBDA e : e.type = "request_end" /\ t - e.timestamp < RpsWindowMs)
    IN  [num |-> Len(recentEvents), den |-> RpsWindowSeconds]

\* getCurrentMetrics()
getCurrentMetrics(T, t) ==
    [totalRequests |-> Len(RequestEnds(T.telemetryEvents)),
     successfulRequests |->
       Len(SelectSeq(T.telemetryEvents,
             LAMBDA e : e.type = "request_end" /\ e.data.success)),
     failedRequests |->
       Len(SelectSeq(T.telemetryEvents,
             LAMBDA e : e.type = "request_end" /\ ~e.data.success)),
     averageDuration |-> calculateAverageDuration(T.telemetryEvents),
     requestsPerSecond |-> calculateRequestsPerSecond(T.telemetryEvents, t),
     activeSessions |-> Cardinality(DOMAIN T.activeSpans)]

\* getTelemetryEvents(): a copy of the log
getTelemetryEvents(T) == T.telemetryEvents

\* getActiveSpanCount()
getActiveSpanCount(T) == Cardinality(DOMAIN T.activeSpans)

\* the spans held by the live-span map
LiveSpans(T) == {T.activeSpans[k] : k \in DOMAIN T.activeSpans}

\* a shutdown that ends the spans and clears the log but keeps the map
shutdown_KeepsMap(T) ==
    Tracker(T.activeSpans, << >>,
            [s \in DOMAIN T.spans |->
               IF s \in LiveSpans(T)
               THEN [T.spans[s] EXCEPT
                       !.status = [code |-> "ERROR",
                                   message |-> "Tracker shutdown"],
                       !.ended = @ + 1]
               ELSE T.spans[s]])

\* shutdown(): end every span of the map, clear the map and the log
shutdown(T) ==
    Tracker(<< >>, << >>,
            [s \in DOMAIN T.spans |->
               IF s \in LiveSpans(T)
               THEN [T.spans[s] EXCEPT
                       !.status = [code |-> "ERROR",
                                   message |-> "Tracker shutdown"],
                       !.ended = @ + 1]
               ELSE T.spans[s]])

\* ------------------------------------------------- the tracker's hooks
\* The hook objects a client registers.  A callback is absent ("none"),
\* returns a promise that resolves ("returns") or rejects ("rejects"), or
\* throws before it returns one ("throws").
HookObjects ==
    { [id |-> "hook-quiet", beforeMethod |-> "returns",
       afterMethod |-> "returns", onError |-> "returns"],
      [id |-> "hook-failing", beforeMethod |-> "throws",
       afterMethod |-> "rejects", onError |-> "throws"],
      [id |-> "hook-after", beforeMethod |-> "none",
       afterMethod |-> "returns", onError |-> "none"] }

\* the callbacks of a hook object
Callbacks == {"beforeMethod", "afterMethod", "onError"}

\* addHook(hook): push
addHook(hs, hook) == Append(hs, hook)

\* hs.indexOf(hook), positions counted from 1, 0 when absent
IndexOf(hs, hook) ==
    IF \E k \in DOMAIN hs : hs[k] = hook
    THEN CHOOSE k \in DOMAIN hs :
            hs[k] = hook /\ \A j \in 1..(k - 1) : hs[j] # hook
    ELSE 0

\* removeHook(hook): splice the first occurrence out, if there is one
removeHook(hs, hook) ==
    LET index == IndexOf(hs, hook)
    IN  IF index > 0
        THEN [k \in 1..(Len(hs) - 1) |->
                IF k < index THEN hs[k] ELSE hs[k + 1]]
        ELSE hs

\* no execute...Hooks call has been made
NoRun == [callback |-> "none", cursor |-> 0, ran |-> << >>, state |-> "idle"]

\* The loop `for (const hook of this.hooks)` of execute...Hooks, from the
\* array iterator's cursor up to the next await or to the end of the array
\* as it is now.  A hook without the callback is passed over; a callback
\* that throws lands in the catch block and the loop goes on at once; a
\* callback that returns a promise is awaited, and a rejection lands in the
\* catch block when the loop resumes.
RECURSIVE executeHooks(_, _)
executeHooks(hs, r) ==
    IF r.cursor >= Len(hs)
    THEN [r EXCEPT !.state = "resolved"]
    ELSE LET hook == hs[r.cursor + 1]
             outcome == hook[r.callback]
             called == [r EXCEPT !.cursor = @ + 1,
                                 !.ran = Append(@, [hook |-> hook.id,
                                                    outcome |-> outcome])]
         IN  CASE outcome = "none" ->
                    executeHooks(hs, [r EXCEPT !.cursor = @ + 1])
               [] outcome = "throws" -> executeHooks(hs, called)
               [] OTHER -> [called EXCEPT !.state = "awaiting"]

\* executeBeforeHooks(context, methodCall), up to its first await
executeBeforeHooks(hs) ==
    executeHooks(hs, [NoRun EXCEPT !.callback = "beforeMethod"])

\* executeAfterHooks(context, result), up to its first await
executeAfterHooks(hs) ==
    executeHooks(hs, [NoRun EXCEPT !.callback = "afterMethod"])

\* executeErrorHooks(context, error), up to its first await
executeErrorHooks(hs) ==
    executeHooks(hs, [NoRun EXCEPT !.callback = "onError"])

\* ------------------------------------------- context injection, its state
\* new ContextInjectionMiddleware(config): the defaults under the config
DefaultInjection ==
    [enabled |-> TRUE, description |-> "Explain why you are calling this tool",
     required |-> FALSE, parameterName |-> "context"]

ContextInjectionMiddleware(cfg) == Spread(DefaultInjection, cfg)

\* no call on the context-injection functions has been made
NoCall == [op |-> "none", input |-> NoObject, output |-> NoObject]

\* JS values other than strings, as tool arguments carry them
NonStrings == {"number:10", "object:null"}

\* typeof v
TypeOf(v) ==
    CASE v = Undefined -> "undefined"
      [] v = "number:10" -> "number"
      [] v = "object:null" -> "object"
      [] OTHER -> "string"

\* x[k] of an object: undefined for a key it does not have
Get(x, k) == IF k \in DOMAIN x THEN x[k] ELSE Undefined

\* the elements of an array
Elements(a) == {a[k] : k \in DOMAIN a}

\* an injectContextIntoSchema that never injects
injectContextIntoSchema_Off(schema, cfg) ==
    [schema |-> schema, same |-> TRUE, input |-> schema]

\* injectContextIntoSchema that pushes the parameter name onto the required
\* list without looking for it there
injectContextIntoSchema_AlwaysAppend(schema, cfg) ==
    LET c == Spread(DefaultInjection, cfg)
        parameterName == c.parameterName
        property == [type |-> "string", description |-> c.description]
    IN  IF ~c.enabled
        THEN [schema |-> schema, same |-> TRUE, input |-> schema]
        ELSE IF schema = NoObject
        THEN [schema |-> [type |-> "object",
                          properties |-> (parameterName :> property),
                          required |-> IF c.required THEN <<parameterName>>
                                       ELSE << >>],
              same |-> FALSE, input |-> schema]
        ELSE LET properties == IF "properties" \in DOMAIN schema
                               THEN schema.properties ELSE << >>
                 withProperty ==
                     Spread(schema,
                            [properties |->
                               Spread(properties, parameterName :> property)])
                 required == IF "required" \in DOMAIN schema
                             THEN schema.required ELSE << >>
                 modifiedSchema ==
                     IF c.required
                     THEN Spread(withProperty,
                                 [required |->
                                    Append(required, parameterName)])
                     ELSE withProperty
             IN  [schema |-> modifiedSchema, same |-> FALSE, input |-> schema]

\* injectContextIntoSchema(schema, config).  Yields the schema returned,
\* whether it is the very object passed in, and the object passed in as it
\* is after the call.  JSON.parse(JSON.stringify(schema)) makes an equal
\* schema that is a new object.
injectContextIntoSchema(schema, cfg) ==
    LET c == Spread(DefaultInjection, cfg)
        parameterName == c.parameterName
        property == [type |-> "string", description |-> c.description]
    IN  IF ~c.enabled
        THEN [schema |-> schema, same |-> TRUE, input |-> schema]
        ELSE IF schema = NoObject
        THEN [schema |-> [type |-> "object",
                          properties |-> (parameterName :> property),
                          required |-> IF c.required THEN <<parameterName>>
                                       ELSE << >>],
              same |-> FALSE, input |-> schema]
        ELSE LET properties == IF "properties" \in DOMAIN schema
                               THEN schema.properties ELSE << >>
                 withProperty ==
                     Spread(schema,
                            [properties |->
                               Spread(properties, parameterName :> property)])
                 required == IF "required" \in DOMAIN schema
                             THEN schema.required ELSE << >>
                 modifiedSchema ==
                     IF c.required
                     THEN Spread(withProperty,
                                 [required |->
                                    IF parameterName \in Elements(required)
                                    THEN required
                                    ELSE Append(required, parameterName)])
                     ELSE withProperty
             IN  [schema |-> modifiedSchema, same |-> FALSE, input |-> schema]

\* extractContextFromArgs(args, parameterName)
extractContextFromArgs(args, parameterName) ==
    IF args = NoObject THEN Undefined
    ELSE LET context == Get(args, parameterName)
         IN  IF TypeOf(context) = "string" THEN context ELSE Undefined

\* a strip that leaves the key in
stripContextFromArgs_Keep(args, parameterName) == args

\* stripContextFromArgs(args, parameterName): a new object without the key
stripContextFromArgs(args, parameterName) ==
    IF args = NoObject THEN args ELSE Without(args, parameterName)

\* hasContextInjection(schema, parameterName)
hasContextInjection(schema, parameterName) ==
    /\ schema # NoObject
    /\ "properties" \in DOMAIN schema
    /\ parameterName \in DOMAIN schema.properties
    /\ schema.properties[parameterName].type = "string"

\* ContextInjectionMiddleware.processToolSchema(toolName, schema)
processToolSchema(cfg, schema) ==
    IF ~cfg.enabled
    THEN [schema |-> schema, same |-> TRUE, input |-> schema]
    ELSE injectContextIntoSchema(schema, cfg)

\* ContextInjectionMiddleware.processToolArguments(toolName, args), and
\* args as it is after the call
processToolArguments(cfg, args) ==
    [context |-> extractContextFromArgs(args, cfg.parameterName),
     cleanedArgs |-> stripContextFromArgs(args, cfg.parameterName),
     input |-> args]

\* ContextInjectionMiddleware.updateConfig(config)
updateConfig(cfg, partial) == Spread(cfg, partial)

\* ---------------------------------------------- the error handler, its state
\* new MCPErrorHandler()
DefaultThreshold == 10
DefaultWindowMs == 60000

MCPErrorHandler ==
    [errorCounts |-> << >>, lastErrorTime |-> << >>,
     errorThreshold |-> DefaultThreshold, timeWindow |-> DefaultWindowMs]

\* no handleError call has been made
NotHandled ==
    [error |-> NoObject, returned |-> NoObject, warned |-> FALSE, at |-> 0]

\* enum MCPErrorType
MCPErrorType ==
    {"invalid_request", "method_not_found", "invalid_params",
     "internal_error", "authentication_failed", "authorization_failed",
     "resource_not_found", "resource_exhausted", "timeout", "cancelled",
     "connection_error", "protocol_error"}

\* An error is [name, message]; an MCPError has type, code, details,
\* retryable and timestamp besides, and instance tells the objects apart
\* that handleError is given from those it makes.  A message is the set of
\* the pieces of text it is put together from, a keyword of the classifier
\* being one piece.
IsMCPError(error) == "type" \in DOMAIN error

\* message.includes(keyword)
Includes(message, keyword) == keyword \in message

\* new MCPError(type, message, code, details, retryable), made at time t
MCPError(type, message, code, details, retryable, t) ==
    [name |-> "MCPError", type |-> type, message |-> message,
     code |-> IF Truthy(code) THEN code ELSE type,
     details |-> details, retryable |-> retryable, timestamp |-> t,
     instance |-> "made"]

\* a classifier that looks for "not found" first
convertToMCPError_NotFoundFirst(error, t) ==
    IF Includes(error.message, "not found")
    THEN MCPError("resource_not_found", error.message, "NOT_FOUND", error,
                  FALSE, t)
    ELSE IF Includes(error.message, "timeout") \/ error.name = "TimeoutError"
    THEN MCPError("timeout", error.message, "TIMEOUT", error, FALSE, t)
    ELSE MCPError("internal_error", error.message, "INTERNAL_ERROR", error,
                  FALSE, t)

\* convertToMCPError(error)
convertToMCPError(error, t) ==
    IF Includes(error.message, "timeout") \/ error.name = "TimeoutError"
    THEN MCPError("timeout", error.message, "TIMEOUT", error, FALSE, t)
    ELSE IF Includes(error.message, "connection")
            \/ Includes(error.message, "ECONNREFUSED")
    THEN MCPError("connection_error", error.message, "CONNECTION_ERROR",
                  error, FALSE, t)
    ELSE IF Includes(error.message, "authentication")
            \/ Includes(error.message, "unauthorized")
    THEN MCPError("authentication_failed", error.message, "AUTH_FAILED",
                  error, FALSE, t)
    ELSE IF Includes(error.message, "permission")
            \/ Includes(error.message, "forbidden")
    THEN MCPError("authorization_failed", error.message, "AUTHZ_FAILED",
                  error, FALSE, t)
    ELSE IF Includes(error.message, "not found")
    THEN MCPError("resource_not_found", error.message, "NOT_FOUND", error,
                  FALSE, t)
    ELSE MCPError("internal_error", error.message, "INTERNAL_ERROR", error,
                  FALSE, t)

\* map.get(key) || 0
GetOrZero(map, key) == IF key \in DOMAIN map THEN map[key] ELSE 0

\* updateErrorStats(errorType) at time t
updateErrorStats(h, errorType, t) ==
    LET count == GetOrZero(h.errorCounts, errorType)
        lastTime == GetOrZero(h.lastErrorTime, errorType)
    IN  IF t - lastTime > h.timeWindow
        THEN [h EXCEPT !.errorCounts = (errorType :> 1) @@ @,
                       !.lastErrorTime = (errorType :> t) @@ @]
        ELSE [h EXCEPT !.errorCounts = (errorType :> (count + 1)) @@ @]

\* isErrorStorm(errorType)
isErrorStorm(h, errorType) ==
    GetOrZero(h.errorCounts, errorType) >= h.errorThreshold

\* handleError(error) at time t, without a span: the handler left behind,
\* the MCPError returned and whether the storm warning was written
handleError(h, error, t) ==
    LET mcpError == IF IsMCPError(error) THEN error
                    ELSE convertToMCPError(error, t)
        updated == updateErrorStats(h, mcpError.type, t)
    IN  [handler |-> updated, returned |-> mcpError,
         warned |-> isErrorStorm(updated, mcpError.type)]

\* getErrorStats()
getErrorStats(h) ==
    [errorType \in DOMAIN h.errorCounts |->
        [count |-> h.errorCounts[errorType],
         lastOccurrence |-> GetOrZero(h.lastErrorTime, errorType)]]

\* setErrorThreshold(threshold)
setErrorThreshold(h, threshold) == [h EXCEPT !.errorThreshold = threshold]

\* --------------------------------------------- the handler wrapper (index.ts)
\* The part of wrappedHandler up to the await of the original handler:
\* request id, operation context, span, intent and project attributes, and
\* the call of the original handler with the request.  fault names the
\* backend call that throws.  received is what the original handler is
\* given as request.params.arguments.
wrappedHandlerEnter(T, cfg, request, t, random, fault) ==
    LET method == IF Truthy(request.method) THEN request.method ELSE "unknown"
        requestId == IF Truthy(request.id) THEN request.id ELSE <<"req", t>>
        context == createOperationContext(method, requestId,
                                          [arguments |-> request.arguments],
                                          t, random)
        started == startMCPSpan(T, cfg, method, context, t,
                                IF fault \in StartFaults THEN fault ELSE NoFault)
        T1 == started.tracker
        span == started.span
        hasIntent == method = "tools/call"
                     /\ "context" \in DOMAIN request.arguments
                     /\ Truthy(request.arguments.context)
        aiContext == IF hasIntent THEN request.arguments.context ELSE Undefined
        s1 == IF hasIntent
              THEN setAttributes(T1.spans, span,
                     [mcp_tool_ai_context |-> aiContext,
                      mcp_tool_ai_intent |-> Substring(aiContext, IntentLimit)])
              ELSE T1.spans
        s2 == IF Truthy(cfg.projectId)
              THEN setAttributes(s1, span,
                     [neonflare_project_id |-> cfg.projectId])
              ELSE s1
        attributeCalls == hasIntent \/ Truthy(cfg.projectId)
    IN  CASE started.threw ->
               [tracker |-> T1, context |-> context, span |-> span,
                threw |-> TRUE, called |-> FALSE, received |-> NoObject]
          [] ~started.threw /\ fault \in WrapFaults /\ attributeCalls ->
               [tracker |-> T1, context |-> context, span |-> span,
                threw |-> TRUE, called |-> FALSE, received |-> NoObject]
          [] OTHER ->
               [tracker |-> Tracker(T1.activeSpans, T1.telemetryEvents, s2),
                context |-> context, span |-> span,
                threw |-> FALSE, called |-> TRUE,
                received |-> request.arguments]

\* the MethodResult the wrapper ends the span with when the handler returned
SuccessResult(context, value, t) ==
    [success |-> TRUE, data |-> value, error |-> NoObject,
     duration |-> t - context.startTime, timestamp |-> t]

\* a catch block that reports the failure as a success
FailureResult_Success(context, error, t) ==
    [success |-> TRUE, data |-> Undefined, error |-> NoObject,
     duration |-> t - context.startTime, timestamp |-> t]

\* the MethodResult the wrapper ends the span with in its catch block
FailureResult(context, error, t) ==
    [success |-> FALSE, data |-> Undefined,
     error |-> [code |-> IF Truthy(ErrorCode(error)) THEN ErrorCode(error)
                         ELSE "HANDLER_ERROR",
                message |-> IF Truthy(ErrorMessage(error))
                            THEN ErrorMessage(error)
                            ELSE "Handler execution failed",
                details |-> error],
     duration |-> t - context.startTime, timestamp |-> t]

\* The part of wrappedHandler after the await: the try block's endMCPSpan
\* and return, or the catch block's endMCPSpan and rethrow.  A throw of the
\* try block's endMCPSpan lands in the catch block too.  tryFault and
\* catchFault name the backend call that throws in each block.
wrappedHandlerSettle(T, cfg, context, settled, t, tryFault, catchFault) ==
    LET ended == endMCPSpan(T, cfg, context.operationId,
                            SuccessResult(context, settled.value, t), tryFault)
        caught == IF settled.kind = "throw" THEN settled.value ELSE BackendError
        Tc == IF settled.kind = "throw" THEN T ELSE ended.tracker
        failed == endMCPSpan(Tc, cfg, context.operationId,
                             FailureResult(context, caught, t), catchFault)
    IN  IF settled.kind = "return" /\ ~ended.threw
        THEN [tracker |-> ended.tracker,
              outcome |-> [kind |-> "return", value |-> settled.value]]
        ELSE [tracker |-> failed.tracker,
              outcome |-> [kind |-> "throw",
                           value |-> IF failed.threw THEN BackendError
                                     ELSE caught]]

\* ------------------------------------------------------- telemetry sinks
\* A sink is a record whose kind names its class; the sinks that store
\* events have the field events. A sink of kind "throwing" is a provider
\* supplied by the user whose recordEvent throws.

\* the methodMetrics every provider builds: zero for each MCP method
ZeroMethodMetrics == "zero for every method"

\* new ConsoleTelemetryProvider()
ConsoleTelemetryProvider == [kind |-> "console", events |-> << >>]

\* new MemoryTelemetryProvider(options): the class declares no constructor,
\* so the argument is dropped and maxEvents is the field's initial value
MemoryTelemetryProvider(options) ==
    [kind |-> "memory", events |-> << >>, maxEvents |-> MemoryMaxEvents]

\* new OTLPTTelemetryProvider()
OTLPTTelemetryProvider == [kind |-> "otlp"]

\* a MetricsProvider of the user: recordEvent throws, nothing is stored
ThrowingProvider == [kind |-> "throwing"]

\* ConsoleTelemetryProvider.recordEvent cutting to the oldest events:
\* slice(0, 500)
Console_recordEvent_KeepOldest(p, event) ==
    LET pushed == Append(p.events, event)
    IN  [p EXCEPT !.events = IF Len(pushed) > ConsoleMaxEvents
                             THEN SubSeq(pushed, 1, ConsoleKeptEvents)
                             ELSE pushed]

\* ConsoleTelemetryProvider.recordEvent
Console_recordEvent(p, event) ==
    LET pushed == Append(p.events, event)
    IN  [p EXCEPT !.events = IF Len(pushed) > ConsoleMaxEvents
                             THEN LastOf(pushed, ConsoleKeptEvents)
                             ELSE pushed]

\* MemoryTelemetryProvider.recordEvent
Memory_recordEvent(p, event) ==
    LET pushed == Append(p.events, event)
    IN  [p EXCEPT !.events = IF Len(pushed) > p.maxEvents
                             THEN LastOf(pushed, p.maxEvents)
                             ELSE pushed]

\* provider.recordEvent(event): the sink left behind and whether it threw
recordEvent(p, event) ==
    CASE p.kind = "console" ->
           [provider |-> Console_recordEvent(p, event), threw |-> FALSE]
      [] p.kind = "memory" ->
           [provider |-> Memory_recordEvent(p, event), threw |-> FALSE]
      [] p.kind = "otlp" -> [provider |-> p, threw |-> FALSE]
      [] p.kind = "throwing" -> [provider |-> p, threw |-> TRUE]

\* a forEach that lets the exception of provider.recordEvent escape
RECURSIVE forEachProvider_NoCatch(_, _, _)
forEachProvider_NoCatch(ps, event, k) ==
    IF k > Len(ps)
    THEN [providers |-> ps, delivered |-> << >>, threw |-> FALSE]
    ELSE LET r == recordEvent(ps[k], event)
         IN  IF r.threw
             THEN [providers |-> ps, delivered |-> <<k>>, threw |-> TRUE]
             ELSE LET rest == forEachProvider_NoCatch(
                                [ps EXCEPT ![k] = r.provider], event, k + 1)
                  IN  [rest EXCEPT !.delivered = <<k>> \o @]

\* this.providers.forEach(provider => { try { provider.recordEvent(event) }
\* catch (error) { console.warn(...) } }), from the k-th provider on: the
\* providers left behind, the providers called, in call order, and whether
\* an exception escaped
RECURSIVE forEachProvider(_, _, _)
forEachProvider(ps, event, k) ==
    IF k > Len(ps)
    THEN [providers |-> ps, delivered |-> << >>, threw |-> FALSE]
    ELSE LET r == recordEvent(ps[k], event)
             rest == forEachProvider([ps EXCEPT ![k] = r.provider], event,
                                     k + 1)
         IN  [rest EXCEPT !.delivered = <<k>> \o @]

\* CompositeTelemetryProvider.recordEvent without the try / catch
Composite_recordEvent_NoCatch(ps, event) ==
    forEachProvider_NoCatch(ps, event, 1)

\* CompositeTelemetryProvider.recordEvent
Composite_recordEvent(ps, event) == forEachProvider(ps, event, 1)

\* DefaultTelemetryManager.recordEvent
Manager_recordEvent(ps, event) == forEachProvider(ps, event, 1)

\* a rational number n / d
Rational(n, d) == [num |-> n, den |-> d]

\* the greatest common divisor of m >= 0 and n > 0
RECURSIVE Gcd(_, _)
Gcd(m, n) == IF m = 0 THEN n ELSE Gcd(n % m, m)

\* a rational in lowest terms: the same number
Lowest(a) ==
    LET g == Gcd(a.num, a.den) IN Rational(a.num \div g, a.den \div g)

\* a + b and a / n of rationals; a = b
RationalPlus(a, b) ==
    Lowest(Rational(a.num * b.den + b.num * a.den, a.den * b.den))

RationalOver(a, n) == Lowest(Rational(a.num, a.den * n))

RationalEqual(a, b) == a.num * b.den = b.num * a.den

\* the metrics of a provider that counts nothing
ZeroMetrics ==
    [totalRequests |-> 0, successfulRequests |-> 0, failedRequests |-> 0,
     averageDuration |-> Rational(0, 1), requestsPerSecond |-> Rational(0, 1),
     activeSessions |-> 0, methodMetrics |-> ZeroMethodMetrics]

\* getMetrics averaging over every request_end event, those of duration 0
\* included
Memory_getMetrics_AllDurations(p, t) ==
    LET ends == SelectSeq(p.events, LAMBDA e : e.type = "request_end")
        successfulRequests ==
          Len(SelectSeq(p.events,
                LAMBDA e : e.type = "request_end" /\ e.data.success))
    IN  [totalRequests |-> Len(ends),
         successfulRequests |-> successfulRequests,
         failedRequests |-> Len(ends) - successfulRequests,
         averageDuration |->
           IF Len(ends) > 0
           THEN Rational(SumDurations(ends), Len(ends))
           ELSE Rational(0, 1),
         requestsPerSecond |-> Rational(0, ProviderRpsWindowSeconds),
         activeSessions |-> 0,
         methodMetrics |-> ZeroMethodMetrics]

\* MemoryTelemetryProvider.getMetrics / ConsoleTelemetryProvider.getMetrics
Memory_getMetrics(p, t) ==
    LET totalRequests ==
          Len(SelectSeq(p.events, LAMBDA e : e.type = "request_end"))
        successfulRequests ==
          Len(SelectSeq(p.events,
                LAMBDA e : e.type = "request_end" /\ e.data.success))
        durations ==
          SelectSeq(p.events,
            LAMBDA e : e.type = "request_end" /\ e.data.duration # 0)
        recentEvents ==
          SelectSeq(p.events,
            LAMBDA e : e.type = "request_end"
                       /\ t - e.timestamp < ProviderRpsWindowMs)
    IN  [totalRequests |-> totalRequests,
         successfulRequests |-> successfulRequests,
         failedRequests |-> totalRequests - successfulRequests,
         averageDuration |->
           IF Len(durations) > 0
           THEN Rational(SumDurations(durations), Len(durations))
           ELSE Rational(0, 1),
         requestsPerSecond |->
           Rational(Len(recentEvents), ProviderRpsWindowSeconds),
         activeSessions |-> 0,
         methodMetrics |-> ZeroMethodMetrics]

\* provider.getMetrics()
getMetrics(p, t) ==
    IF p.kind \in {"console", "memory"} THEN Memory_getMetrics(p, t)
    ELSE ZeroMetrics

\* provider.getEvents()
getEvents(p) ==
    IF p.kind \in {"console", "memory"} THEN p.events ELSE << >>

\* metrics.reduce((sum, m) => sum + m[field], 0)
RECURSIVE reduceSum(_, _)
reduceSum(metrics, field) ==
    IF metrics = << >> THEN 0
    ELSE metrics[1][field] + reduceSum(Tail(metrics), field)

\* the same reduce over a field of fractional values
RECURSIVE reduceRational(_, _)
reduceRational(metrics, field) ==
    IF metrics = << >> THEN Rational(0, 1)
    ELSE RationalPlus(metrics[1][field],
                      reduceRational(Tail(metrics), field))

\* the aggregate both getMetrics build from their providers' metrics,
\* without the division by metrics.length
aggregate_NoDivision(metrics) ==
    [totalRequests |-> reduceSum(metrics, "totalRequests"),
     successfulRequests |-> reduceSum(metrics, "successfulRequests"),
     failedRequests |-> reduceSum(metrics, "failedRequests"),
     averageDuration |-> reduceRational(metrics, "averageDuration"),
     requestsPerSecond |-> reduceRational(metrics, "requestsPerSecond"),
     activeSessions |-> reduceSum(metrics, "activeSessions")]

\* the fields both getMetrics build from their providers' metrics
aggregate(metrics) ==
    [totalRequests |-> reduceSum(metrics, "totalRequests"),
     successfulRequests |-> reduceSum(metrics, "successfulRequests"),
     failedRequests |-> reduceSum(metrics, "failedRequests"),
     averageDuration |->
       RationalOver(reduceRational(metrics, "averageDuration"), Len(metrics)),
     requestsPerSecond |->
       RationalOver(reduceRational(metrics, "requestsPerSecond"),
                    Len(metrics)),
     activeSessions |-> reduceSum(metrics, "activeSessions")]

\* CompositeTelemetryProvider.getMetrics(); every sink has getMetrics
Composite_getMetrics(ps, t) ==
    LET metrics == [k \in DOMAIN ps |-> getMetrics(ps[k], t)]
    IN  IF Len(metrics) = 0 THEN ZeroMetrics
        ELSE Spread(aggregate(metrics),
                    [methodMetrics |-> ZeroMethodMetrics])

\* DefaultTelemetryManager.getMetrics()
Manager_getMetrics(ps, t) ==
    LET metrics == [k \in DOMAIN ps |-> getMetrics(ps[k], t)]
    IN  IF Len(metrics) = 0 THEN ZeroMetrics
        ELSE Spread(aggregate(metrics),
                    [methodMetrics |-> metrics[1].methodMetrics])

\* providers.flatMap(p => p.getEvents())
RECURSIVE flatMapEvents(_)
flatMapEvents(ps) ==
    IF ps = << >> THEN << >>
    ELSE getEvents(ps[1]) \o flatMapEvents(Tail(ps))

\* self.findIndex(e => e.timestamp === event.timestamp
\*                     && e.type === event.type), of an event of self
findIndex(self, event) ==
    CHOOSE i \in DOMAIN self :
        /\ self[i].timestamp = event.timestamp /\ self[i].type = event.type
        /\ \A j \in 1..(i - 1) :
              ~(self[j].timestamp = event.timestamp
                /\ self[j].type = event.type)

\* self.filter((event, index, self) => index === findIndex(...))
RECURSIVE filterFirsts(_, _)
filterFirsts(self, index) ==
    IF index > Len(self) THEN << >>
    ELSE (IF index = findIndex(self, self[index])
          THEN <<self[index]>> ELSE << >>)
         \o filterFirsts(self, index + 1)

\* events.sort((a, b) => a.timestamp - b.timestamp): a stable sort
RECURSIVE sortByTimestamp(_)
sortByTimestamp(events) ==
    IF events = << >> THEN << >>
    ELSE LET sorted == sortByTimestamp(SubSeq(events, 1, Len(events) - 1))
             event == events[Len(events)]
             k == Cardinality({i \in DOMAIN sorted :
                                 sorted[i].timestamp <= event.timestamp})
         IN  SubSeq(sorted, 1, k) \o <<event>>
             \o SubSeq(sorted, k + 1, Len(sorted))

\* CompositeTelemetryProvider.getEvents that does not sort
Composite_getEvents_Unsorted(ps) == filterFirsts(flatMapEvents(ps), 1)

\* CompositeTelemetryProvider.getEvents()
Composite_getEvents(ps) == sortByTimestamp(filterFirsts(flatMapEvents(ps), 1))

\* the last call on the telemetry manager or on a sink
NoTelemetryCall ==
    [op |-> Undefined, via |-> Undefined, event |-> NoObject,
     delivered |-> << >>, threw |-> FALSE]

\* ------------------------------------------------- servers and trackmcp
\* A server is [properties, wrappers, handler]: properties holds the
\* __neonflare_ properties set on the object; wrappers lists the trackers
\* whose setRequestHandler interception is installed, the first installed
\* first; handler is the chain of trackers around the registered handler,
\* the outermost first, with registered FALSE while none is registered.
\* An object created by the n-th trackmcp call is [class, id |-> n].
Servers == 1..MaxServers

\* new Server(...)
Server ==
    [properties |-> << >>, wrappers |-> << >>,
     handler |-> [registered |-> FALSE, chain |-> << >>]]

\* (server as any)[name]: NoObject stands for undefined
Property(server, name) ==
    IF name \in DOMAIN server.properties THEN server.properties[name]
    ELSE NoObject

\* getInstrumentation(server)
getInstrumentation(server) == Property(server, "__neonflare_instrumentation")

\* getTracker(server)
getTracker(server) == Property(server, "__neonflare_tracker")

\* getContextInjector(server)
getContextInjector(server) == Property(server, "__neonflare_context_injector")

\* the objects one trackmcp call creates and stores on the server
Created(n, cfg) ==
    [__neonflare_instrumentation |-> [class |-> "MCPInstrumentation", id |-> n],
     __neonflare_tracker |-> [class |-> "MCPTracker", id |-> n],
     __neonflare_context_injector |->
       [class |-> "ContextInjectionMiddleware", id |-> n],
     __neonflare_config |-> cfg]

\* a trackmcp that hands every server the objects of the first call
trackmcp_SharedTracker(S, ts, s, cfg) ==
    [servers |->
       [S EXCEPT ![s].properties = Spread(@, Created(1, cfg)),
                 ![s].wrappers = Append(@, 1)],
     trackers |-> Append(ts, [server |-> s, config |-> cfg,
                              state |-> Tracker(<< >>, << >>, << >>)]),
     returned |-> s]

\* trackmcp(server, config) on server s: a new tracker, instrumentation and
\* context injector, stored on the server; setRequestHandler intercepted
\* once more; the server returned. ts are the trackers created so far.
trackmcp(S, ts, s, cfg) ==
    LET n == Len(ts) + 1
    IN  [servers |->
           [S EXCEPT ![s].properties = Spread(@, Created(n, cfg)),
                     ![s].wrappers = Append(@, n)],
         trackers |-> Append(ts, [server |-> s, config |-> cfg,
                                  state |-> Tracker(<< >>, << >>, << >>)]),
         returned |-> s]

\* server.setRequestHandler(schema, handler): the newest interception wraps
\* the handler first and hands the wrapper to the one installed before it,
\* so the first tracker installed is the outermost
setRequestHandler(server) ==
    [server EXCEPT !.handler = [registered |-> TRUE, chain |-> server.wrappers]]

\* the registered handler called with a request: the wrappers of the chain
\* from the k-th on, around the original handler, which settles as given.
\* randoms are the values Math.random() yields, one for each wrapper.
RECURSIVE callHandler(_, _, _, _, _, _, _)
callHandler(ts, chain, k, request, settled, t, randoms) ==
    IF k > Len(chain) THEN [trackers |-> ts, outcome |-> settled]
    ELSE LET n == chain[k]
             entered == wrappedHandlerEnter(ts[n].state, ts[n].config,
                                            request, t, randoms[k], NoFault)
             inner == callHandler([ts EXCEPT ![n].state = entered.tracker],
                                  chain, k + 1, request, settled, t, randoms)
             done == wrappedHandlerSettle(inner.trackers[n].state,
                                          ts[n].config, entered.context,
                                          inner.outcome, t, NoFault, NoFault)
         IN  [trackers |-> [inner.trackers EXCEPT ![n].state = done.tracker],
              outcome |-> done.outcome]

\* the last call on a server
NoServerCall ==
    [op |-> Undefined, server |-> 0, returned |-> 0, outcome |-> NoObject]

\* ------------------------------------- MCPErrorBoundary (core/errors.ts)
\* what an operation given to the boundary does: return a value or throw
\* an error
Returns(value) == [kind |-> "return", value |-> value]
Throws(value) == [kind |-> "throw", value |-> value]

\* the promise an async function returns, fulfilled with the value the
\* function returns; `await promise` gives the value
Promise(value) == [promise |-> "fulfilled", value |-> value]
Await(promise) == promise.value

\* MCPErrorBoundary.execute(operation), being awaited: the handler left
\* behind and what the caller gets
execute(h, operation, t) ==
    IF operation.kind = "return"
    THEN [handler |-> h, outcome |-> Returns(operation.value)]
    ELSE LET r == handleError(h, operation.value, t)
             mcpError == Await(Promise(r.returned))
         IN  [handler |-> r.handler, outcome |-> Throws(mcpError)]

\* MCPErrorBoundary.executeSync(operation): handleError is async and is
\* not awaited, so mcpError is the promise it returns
executeSync(h, operation, t) ==
    IF operation.kind = "return"
    THEN [handler |-> h, outcome |-> Returns(operation.value)]
    ELSE LET r == handleError(h, operation.value, t)
             mcpError == Promise(r.returned)
         IN  [handler |-> r.handler, outcome |-> Throws(mcpError)]

\* no call has been made on the boundary
NoBoundaryCall ==
    [op |-> Undefined, operation |-> NoObject, outcome |-> NoObject]

\* ------------------------- configuration (instrumentation/index.ts,
\* core/tracker.ts)
\* ConfigurationManager.loadDefaultConfig(); the MCPTracker constructor
\* spreads the same values, without rotel
DefaultConfig ==
    [serviceName |-> "mcp-server", serviceVersion |-> "1.0.0",
     tracingEnabled |-> TRUE, metricsEnabled |-> FALSE, samplingRate |-> 1,
     requestTimeout |-> 30000, maxAttributes |-> 128, maxEvents |-> 128,
     consoleExport |-> FALSE,
     rotel |-> [enabled |-> FALSE, autoInstrument |-> TRUE,
                instrumentations |-> << >>]]

\* parseInt of the texts the environment holds
ParseInt(text) ==
    CASE text = "5000" -> 5000
      [] text = "250ms" -> 250
      [] OTHER -> 0

\* config.k = value
Assign(cfg, k, value) == (k :> value) @@ cfg

\* mergeConfig(config): { ...this.config, ...config, rotel: { ... } }
mergeConfig(cfg, given) ==
    Assign(Spread(cfg, given), "rotel",
           Spread(cfg.rotel,
                  IF "rotel" \in DOMAIN given THEN given.rotel ELSE NoObject))

\* loadEnvironmentOverrides(): a variable that is set and not empty
\* replaces the setting
loadEnvironmentOverrides(cfg, env) ==
    LET c1 == IF Truthy(env.OTEL_SERVICE_NAME)
              THEN Assign(cfg, "serviceName", env.OTEL_SERVICE_NAME)
              ELSE cfg
        c2 == IF Truthy(env.NEONFLARE_TRACING_ENABLED)
              THEN Assign(c1, "tracingEnabled",
                          env.NEONFLARE_TRACING_ENABLED = "true")
              ELSE c1
        c3 == IF Truthy(env.NEONFLARE_REQUEST_TIMEOUT)
              THEN Assign(c2, "requestTimeout",
                          ParseInt(env.NEONFLARE_REQUEST_TIMEOUT))
              ELSE c2
    IN  c3

\* new ConfigurationManager(config): the manager's config
ConfigurationManager(given, env) ==
    loadEnvironmentOverrides(mergeConfig(DefaultConfig, given), env)

\* new MCPTracker(config): this.config = { defaults, ...config }; the
\* constructor does not read the environment
MCPTrackerConfig(given, env) ==
    Spread(Without(DefaultConfig, "rotel"), given)

\* nothing has been constructed from a configuration
NotConfigured ==
    [class |-> Undefined, given |-> NoObject, env |-> NoObject,
     config |-> NoObject]

\* ---------------------- the global telemetry manager (telemetry/manager.ts)
\* new DefaultTelemetryManager(): one console sink
DefaultTelemetryManager == [providers |-> <<ConsoleTelemetryProvider>>]

\* new DefaultTelemetryManager(providers)
DefaultTelemetryManagerOf(ps) == [providers |-> ps]

\* provider.shutdown?.(): the console and memory sinks empty their events
Provider_shutdown(p) ==
    IF p.kind \in {"console", "memory"} THEN [p EXCEPT !.events = << >>]
    ELSE p

\* DefaultTelemetryManager.shutdown(): the shutdown of every provider is
\* called before the promises are awaited
Manager_shutdown(m) ==
    [m EXCEPT !.providers =
        [k \in DOMAIN m.providers |-> Provider_shutdown(m.providers[k])]]

\* getTelemetryManager(): the managers and the global instance left behind
getTelemetryManager(ms, global) ==
    IF global = 0
    THEN [managers |-> Append(ms, DefaultTelemetryManager),
          global |-> Len(ms) + 1, returned |-> Len(ms) + 1]
    ELSE [managers |-> ms, global |-> global, returned |-> global]

\* setTelemetryManager(manager)
setTelemetryManager(ms, global, manager) ==
    [managers |-> ms, global |-> manager]

\* resetTelemetryManager that drops the instance without shutting it down
resetTelemetryManager_NoShutdown(ms, global) ==
    [managers |-> ms, global |-> 0]

\* resetTelemetryManager()
resetTelemetryManager(ms, global) ==
    IF global # 0
    THEN [managers |-> [ms EXCEPT ![global] = Manager_shutdown(ms[global])],
          global |-> 0]
    ELSE [managers |-> ms, global |-> global]

\* no call has been made on the global telemetry manager
\* a call names the manager concerned and the number of events that its
\* sinks retained when the call was made
NoManagerCall == [op |-> Undefined, returned |-> 0, retained |-> 0]

\* ----------------------------------------- PerformanceTimer (performance)
\* new PerformanceTimer() at time t
PerformanceTimer(t) == [startTime |-> t, marks |-> << >>]

\* mark(name) at time t
mark(tm, name, t) == [tm EXCEPT !.marks = (name :> t) @@ @]

\* measure(fromMark, toMark) at time t; toMark is Undefined when it is not
\* given.  A toTime that is undefined or 0 is replaced by the time of the
\* call.
measure(tm, fromMark, toMark, t) ==
    LET toTime == IF Truthy(toMark)
                  THEN IF toMark \in DOMAIN tm.marks THEN tm.marks[toMark]
                       ELSE 0
                  ELSE t
    IN  IF fromMark \notin DOMAIN tm.marks
        THEN [threw |-> TRUE, value |-> 0]
        ELSE [threw |-> FALSE,
              value |-> (IF toTime # 0 THEN toTime ELSE t)
                           - tm.marks[fromMark]]

\* measureFromStart(toMark): this.measure('start', toMark)
measureFromStart(tm, toMark, t) == measure(tm, "start", toMark, t)

\* getElapsed() at time t
getElapsed(tm, t) == t - tm.startTime

\* reset() at time t
reset(tm, t) == [startTime |-> t, marks |-> << >>]

\* no call has been made on the timer
NoTimerCall ==
    [op |-> Undefined, from |-> Undefined, to |-> Undefined,
     threw |-> FALSE, value |-> 0, fresh |-> TRUE, at |-> 0]

\* ------------------------ MCPInstrumentation (instrumentation/index.ts)
\* a call of an instrument* method that has not been made yet
IdleCall == [pc |-> "idle", context |-> NoObject, span |-> 0,
             handler |-> NoObject, steps |-> << >>, outcome |-> NoObject]

\* new MCPInstrumentation(tracker): methodContexts = new Map()
NoMethodContexts == << >>

\* what a call has done so far is a sequence of steps
Step(name, hook) == [step |-> name, hook |-> hook]

\* `await this.tracker.execute...Hooks(...)`: the loop is resumed at every
\* await until the promise of the call resolves
RECURSIVE awaitHooks(_, _)
awaitHooks(hs, r) ==
    IF r.state = "awaiting" THEN awaitHooks(hs, executeHooks(hs, r)) ELSE r

\* the callbacks an awaited execute...Hooks call has run, as steps
HookSteps(r) == [k \in DOMAIN r.ran |-> Step(r.callback, r.ran[k].hook)]

\* the MethodResult of instrumentMethod's try block
MethodSuccess(context, value, t) ==
    [success |-> TRUE, data |-> value, error |-> NoObject,
     duration |-> t - context.startTime, timestamp |-> t]

\* the MethodResult of instrumentMethod's catch block
MethodFailure(context, error, t) ==
    [success |-> FALSE, data |-> Undefined,
     error |-> [code |-> IF Truthy(ErrorCode(error)) THEN ErrorCode(error)
                         ELSE "METHOD_ERROR",
                message |-> IF Truthy(ErrorMessage(error))
                            THEN ErrorMessage(error)
                            ELSE "Method execution failed",
                details |-> error],
     duration |-> t - context.startTime, timestamp |-> t]

\* instrumentMethod up to `await this.tracker.executeBeforeHooks(...)`:
\* the context, its entry in methodContexts, the span, and the before hooks
instrumentMethodEnter(T, M, cfg, hs, methodType, requestId, methodParams, t, random) ==
    LET context == createOperationContext(methodType, requestId,
                                          methodParams, t, random)
        started == startMCPSpan(T, cfg, methodType, context, t, NoFault)
    IN  [tracker |-> started.tracker,
         methodContexts |-> (context.operationId :> context) @@ M,
         context |-> context,
         span |-> started.span,
         steps |-> <<Step("startMCPSpan", Undefined)>> \o
                   HookSteps(awaitHooks(hs, executeBeforeHooks(hs)))]

\* instrumentMethod that leaves the span to the caller in its catch block
instrumentMethodSettle_NoEndOnError(T, cfg, hs, context, settled, t) ==
    IF settled.kind = "return"
    THEN [tracker |-> endMCPSpan(T, cfg, context.operationId,
                                 MethodSuccess(context, settled.value, t),
                                 NoFault).tracker,
          steps |-> <<Step("endMCPSpan", Undefined)>> \o
                    HookSteps(awaitHooks(hs, executeAfterHooks(hs)))]
    ELSE [tracker |-> T,
          steps |-> HookSteps(awaitHooks(hs, executeErrorHooks(hs)))]

\* instrumentMethod from the settling of `await handler()` to the await of
\* the after or error hooks: the try block's endMCPSpan and executeAfterHooks
\* or the catch block's endMCPSpan and executeErrorHooks
instrumentMethodSettle(T, cfg, hs, context, settled, t) ==
    IF settled.kind = "return"
    THEN [tracker |-> endMCPSpan(T, cfg, context.operationId,
                                 MethodSuccess(context, settled.value, t),
                                 NoFault).tracker,
          steps |-> <<Step("endMCPSpan", Undefined)>> \o
                    HookSteps(awaitHooks(hs, executeAfterHooks(hs)))]
    ELSE [tracker |-> endMCPSpan(T, cfg, context.operationId,
                                 MethodFailure(context, settled.value, t),
                                 NoFault).tracker,
          steps |-> <<Step("endMCPSpan", Undefined)>> \o
                    HookSteps(awaitHooks(hs, executeErrorHooks(hs)))]

\* instrumentMethod's finally block, and what the call gives its caller:
\* `return result` of the try block or `throw error` of the catch block
instrumentMethodFinally(M, context, settled) ==
    [methodContexts |-> Without(M, context.operationId),
     outcome |-> settled]

\* the state of the instrumentation API before its first use
InitApi ==
    /\ calls = [c \in 1..MaxCalls |-> IdleCall]
    /\ methodContexts = NoMethodContexts
    /\ boundaryCall = NoBoundaryCall
    /\ configuration = NotConfigured
    /\ managers = << >>
    /\ globalTelemetryManager = 0
    /\ managerCall = NoManagerCall
    /\ timer = PerformanceTimer(0)
    /\ timerCall = NoTimerCall

\* ------------------------------------------------------------ the state
\* an operation id that no context carries (random values start at 1)
UnknownOperationId == <<"op", 0, 0>>

TrackerState == Tracker(activeSpans, telemetryEvents, spans)

SetTracker(T) ==
    /\ activeSpans' = T.activeSpans
    /\ telemetryEvents' = T.telemetryEvents
    /\ spans' = T.spans

NextRandom == randomStream[randomCalls + 1]

Idle == [pc |-> "idle", request |-> NoObject, context |-> NoObject,
         span |-> 0, called |-> FALSE, received |-> NoObject,
         settled |-> NoObject, outcome |-> NoObject]

Invocations == 1..MaxInvocations

Configs ==
    [projectId : {Undefined, "proj_test"},
     defaultAttributes : {<< >>},
     contextInjection : [parameterName : ParameterNames]]

Init ==
    /\ now = 0
    /\ config \in Configs
    /\ randomStream = [k \in 1..(MaxInvocations + MaxSpans) |-> k]
    /\ randomCalls = 0
    /\ activeSpans = << >>
    /\ telemetryEvents = << >>
    /\ spans = << >>
    /\ inv = [i \in Invocations |-> Idle]
    /\ contexts = << >>
    /\ client = [op |-> Undefined, operationId |-> UnknownOperationId,
                 live |-> FALSE, threw |-> FALSE]
    /\ hooks = << >>
    /\ run = NoRun
    /\ injector = ContextInjectionMiddleware(config.contextInjection)
    /\ processed = NoCall
    /\ errorHandler = MCPErrorHandler
    /\ handled = NotHandled
    /\ providers = <<ConsoleTelemetryProvider>>
    /\ memoryOptions = NoObject
    /\ telemetryCall = NoTelemetryCall
    /\ servers = [s \in Servers |-> Server]
    /\ trackers = << >>
    /\ serverCall = NoServerCall
    /\ InitApi

\* time passes
Tick ==
    /\ now < MaxTime
    /\ now' = now + 1
    /\ UNCHANGED <<config, randomStream, randomCalls, activeSpans,
                   telemetryEvents, spans, inv, contexts, client>>
    /\ UNCHANGED <<hookVars, injectorVars, errorVars, telemetryVars,
                   serverVars, apiVars>>

\* the server dispatches a request to invocation i of the wrapped handler
Enter(i, request, fault) ==
    /\ inv[i].pc = "idle"
    /\ \A j \in Invocations : j < i => inv[j].pc # "idle"
    /\ LET r == wrappedHandlerEnter(TrackerState, config, request, now,
                                    NextRandom, fault)
       IN  /\ SetTracker(r.tracker)
           /\ inv' = [inv EXCEPT ![i] =
                 [pc |-> IF r.threw THEN "done" ELSE "awaiting",
                  request |-> request, context |-> r.context,
                  span |-> r.span, called |-> r.called,
                  received |-> r.received, settled |-> NoObject,
                  outcome |-> IF r.threw
                              THEN [kind |-> "throw", value |-> BackendError]
                              ELSE NoObject]]
    /\ randomCalls' = randomCalls + 1
    /\ UNCHANGED <<now, config, randomStream, contexts, client>>
    /\ UNCHANGED <<hookVars, injectorVars, errorVars, telemetryVars,
                   serverVars, apiVars>>

\* the original handler of invocation i settles and the wrapper resumes
Settle(i, settled, tryFault, catchFault) ==
    /\ inv[i].pc = "awaiting"
    /\ LET r == wrappedHandlerSettle(TrackerState, config, inv[i].context,
                                     settled, now, tryFault, catchFault)
       IN  /\ SetTracker(r.tracker)
           /\ inv' = [inv EXCEPT ![i].pc = "done",
                                 ![i].settled = settled,
                                 ![i].outcome = r.outcome]
    /\ UNCHANGED <<now, config, randomStream, randomCalls, contexts, client>>
    /\ UNCHANGED <<hookVars, injectorVars, errorVars, telemetryVars,
                   serverVars, apiVars>>

Invoke(i) == \E request \in Requests : Enter(i, request, NoFault)

Resolve(i) == \E settled \in HandlerOutcomes : Settle(i, settled, NoFault, NoFault)

\* ------------------------------------- direct calls on the tracker's methods
Methods == {"tools/list"}

\* the operation ids a client can name: those of its contexts and one that
\* belongs to no context
ClientOperationIds ==
    {contexts[k].operationId : k \in DOMAIN contexts} \cup {UnknownOperationId}

\* the MethodResults a client ends a span with
ClientResults ==
    { [success |-> TRUE, data |-> "result-a", error |-> NoObject,
       duration |-> d, timestamp |-> now] : d \in 0..MaxDuration } \cup
    { [success |-> FALSE, data |-> Undefined,
       error |-> [code |-> "ENOENT", message |-> "not found: widget",
                  details |-> "err-coded"],
       duration |-> d, timestamp |-> now] : d \in 0..MaxDuration }

\* the client's last call: its name, the operation id it named, whether
\* that id had a live span when the call was made, and whether it threw
Called(op, operationId, live, threw) ==
    client' = [op |-> op, operationId |-> operationId, live |-> live,
               threw |-> threw]

\* context = tracker.createOperationContext(method);
\* tracker.startMCPSpan(method, context)
ClientStartSpan ==
    /\ Len(spans) < MaxSpans
    /\ \E method \in Methods :
         LET context == createOperationContext(method, Undefined, NoObject,
                                               now, NextRandom)
             r == startMCPSpan(TrackerState, config, method, context, now,
                               NoFault)
         IN  /\ contexts' = Append(contexts, context)
             /\ SetTracker(r.tracker)
             /\ Called("startMCPSpan", context.operationId,
                       context.operationId \in DOMAIN activeSpans, r.threw)
    /\ randomCalls' = randomCalls + 1
    /\ UNCHANGED <<now, config, randomStream, inv>>
    /\ UNCHANGED <<hookVars, injectorVars, errorVars, telemetryVars,
                   serverVars, apiVars>>

\* tracker.startMCPSpan(method, context) with a context used before
ClientRestartSpan ==
    /\ Len(spans) < MaxSpans
    /\ \E k \in DOMAIN contexts :
         LET context == contexts[k]
             r == startMCPSpan(TrackerState, config, context.metadata.method,
                               context, now, NoFault)
         IN  /\ SetTracker(r.tracker)
             /\ Called("startMCPSpan", context.operationId,
                       context.operationId \in DOMAIN activeSpans, r.threw)
    /\ UNCHANGED <<now, config, randomStream, randomCalls, inv, contexts>>
    /\ UNCHANGED <<hookVars, injectorVars, errorVars, telemetryVars,
                   serverVars, apiVars>>

\* tracker.endMCPSpan(operationId, result)
ClientEndSpan ==
    /\ \E operationId \in ClientOperationIds, result \in ClientResults :
         LET r == endMCPSpan(TrackerState, config, operationId, result, NoFault)
         IN  /\ SetTracker(r.tracker)
             /\ Called("endMCPSpan", operationId,
                       operationId \in DOMAIN activeSpans, r.threw)
    /\ UNCHANGED <<now, config, randomStream, randomCalls, inv, contexts>>
    /\ UNCHANGED <<hookVars, injectorVars, errorVars, telemetryVars,
                   serverVars, apiVars>>

\* tracker.shutdown()
Shutdown ==
    /\ SetTracker(shutdown(TrackerState))
    /\ Called("shutdown", UnknownOperationId, activeSpans # << >>, FALSE)
    /\ UNCHANGED <<now, config, randomStream, randomCalls, inv, contexts>>
    /\ UNCHANGED <<hookVars, injectorVars, errorVars, telemetryVars,
                   serverVars, apiVars>>

\* requests served through the wrapped server, and shutdown
Next ==
    \/ Tick
    \/ \E i \in Invocations : Invoke(i)
    \/ \E i \in Invocations : Resolve(i)
    \/ Shutdown

Spec == Init /\ [][Next]_vars

\* a client driving the tracker's methods itself, within one millisecond
NextTracker ==
    \/ ClientStartSpan
    \/ ClientRestartSpan
    \/ ClientEndSpan
    \/ Shutdown

SpecTracker == Init /\ [][NextTracker]_vars

\* ----------------------------------------------- a backend whose calls throw
InvokeFault(i) ==
    \E request \in Requests, fault \in StartFaults \cup WrapFaults :
        Enter(i, request, fault)

ResolveFault(i) ==
    \E settled \in HandlerOutcomes,
       tryFault \in EndFaults \cup {NoFault},
       catchFault \in EndFaults \cup {NoFault} :
        /\ tryFault # NoFault \/ catchFault # NoFault
        /\ Settle(i, settled, tryFault, catchFault)

NextFault ==
    \/ Next
    \/ \E i \in Invocations : InvokeFault(i)
    \/ \E i \in Invocations : ResolveFault(i)

SpecFault == Init /\ [][NextFault]_vars

\* ------------------------------------------- hooks driven on the tracker
\* tracker.addHook(hook)
AddHook ==
    /\ Len(hooks) < MaxHooks
    /\ \E hook \in HookObjects : hooks' = addHook(hooks, hook)
    /\ UNCHANGED <<telemetryVars, serverVars, apiVars>>
    /\ UNCHANGED <<now, config, randomStream, randomCalls, activeSpans,
                   telemetryEvents, spans, inv, contexts, client, run,
                   injectorVars, errorVars>>

\* tracker.removeHook(hook), of a registered hook
RemoveHook ==
    /\ \E k \in DOMAIN hooks : hooks' = removeHook(hooks, hooks[k])
    /\ UNCHANGED <<telemetryVars, serverVars, apiVars>>
    /\ UNCHANGED <<now, config, randomStream, randomCalls, activeSpans,
                   telemetryEvents, spans, inv, contexts, client, run,
                   injectorVars, errorVars>>

\* a call of executeBeforeHooks, executeAfterHooks or executeErrorHooks,
\* once the call before it has settled
ExecuteHooks ==
    /\ run.state \in {"idle", "resolved"}
    /\ run' \in {executeBeforeHooks(hooks), executeAfterHooks(hooks),
                  executeErrorHooks(hooks)}
    /\ UNCHANGED <<telemetryVars, serverVars, apiVars>>
    /\ UNCHANGED <<now, config, randomStream, randomCalls, activeSpans,
                   telemetryEvents, spans, inv, contexts, client, hooks,
                   injectorVars, errorVars>>

\* the awaited callback settles and the loop resumes
ResumeHooks ==
    /\ run.state = "awaiting"
    /\ run' = executeHooks(hooks, run)
    /\ UNCHANGED <<telemetryVars, serverVars, apiVars>>
    /\ UNCHANGED <<now, config, randomStream, randomCalls, activeSpans,
                   telemetryEvents, spans, inv, contexts, client, hooks,
                   injectorVars, errorVars>>

NextHooks ==
    \/ AddHook
    \/ RemoveHook
    \/ ExecuteHooks
    \/ ResumeHooks

SpecHooks == Init /\ [][NextHooks]_vars

\* --------------------------------------------- context injection, driven
\* the names a configuration gives the intent parameter
InjectionNames == {"context", "intent"}

\* the configs passed to injectContextIntoSchema and to updateConfig
InjectionConfigs ==
    {<< >>} \cup [enabled : BOOLEAN] \cup [parameterName : InjectionNames]
    \cup [enabled : {TRUE}, required : {TRUE}, parameterName : InjectionNames]

\* tool arguments: each of query, context and intent absent or present,
\* the intent fields with a string, the empty string or a non-string
ToolArguments ==
    UNION { [keys -> {"because", "", "number:10"}] :
              keys \in SUBSET {"context", "intent"} }
    \cup
    UNION { { [query |-> "x"] @@ f :
                f \in [keys -> {"because", "", "number:10"}] } :
              keys \in SUBSET {"context", "intent"} }

\* the properties of input schemas
SchemaProperties ==
    { [query |-> [type |-> "string"]],
      [query |-> [type |-> "string"], limit |-> [type |-> "number"]],
      [query |-> [type |-> "string"], context |-> [type |-> "object"]],
      [intent |-> [type |-> "string", description |-> "the user's goal"]] }

\* the input schemas: none, with and without properties and required
Schemas ==
    {NoObject, [type |-> "object"]}
    \cup [type : {"object"}, properties : SchemaProperties]
    \cup [type : {"object"}, properties : SchemaProperties,
          required : {<<"query">>, <<"query", "context">>}]

Processed(op, input, output) ==
    processed' = [op |-> op, input |-> input, output |-> output]

\* injectContextIntoSchema(schema, config)
InjectContextIntoSchema ==
    /\ \E schema \in Schemas, cfg \in InjectionConfigs :
          Processed("injectContextIntoSchema",
                    [schema |-> schema, config |-> cfg],
                    injectContextIntoSchema(schema, cfg))
    /\ UNCHANGED <<telemetryVars, serverVars, apiVars>>
    /\ UNCHANGED <<now, config, randomStream, randomCalls, activeSpans,
                   telemetryEvents, spans, inv, contexts, client, hookVars,
                   injector, errorVars>>

\* extractContextFromArgs(stripContextFromArgs(args, name), name)
StripThenExtract ==
    /\ \E args \in ToolArguments, parameterName \in InjectionNames :
          Processed("stripThenExtract",
                    [args |-> args, parameterName |-> parameterName],
                    [context |->
                       extractContextFromArgs(
                         stripContextFromArgs(args, parameterName),
                         parameterName),
                     input |-> args])
    /\ UNCHANGED <<telemetryVars, serverVars, apiVars>>
    /\ UNCHANGED <<now, config, randomStream, randomCalls, activeSpans,
                   telemetryEvents, spans, inv, contexts, client, hookVars,
                   injector, errorVars>>

\* getContextInjector(server).processToolSchema(toolName, schema)
ProcessToolSchemaOf(schemas) ==
    /\ \E schema \in schemas :
          Processed("processToolSchema",
                    [schema |-> schema, config |-> injector],
                    processToolSchema(injector, schema))
    /\ UNCHANGED <<telemetryVars, serverVars, apiVars>>
    /\ UNCHANGED <<now, config, randomStream, randomCalls, activeSpans,
                   telemetryEvents, spans, inv, contexts, client, hookVars,
                   injector, errorVars>>

ProcessToolSchema == ProcessToolSchemaOf(Schemas)

\* getContextInjector(server).processToolArguments(toolName, args)
ProcessToolArgumentsOf(arguments) ==
    /\ \E args \in arguments :
          Processed("processToolArguments",
                    [args |-> args, config |-> injector],
                    processToolArguments(injector, args))
    /\ UNCHANGED <<telemetryVars, serverVars, apiVars>>
    /\ UNCHANGED <<now, config, randomStream, randomCalls, activeSpans,
                   telemetryEvents, spans, inv, contexts, client, hookVars,
                   injector, errorVars>>

ProcessToolArguments == ProcessToolArgumentsOf(ToolArguments)

\* getContextInjector(server).updateConfig(config)
UpdateConfig ==
    /\ \E partial \in InjectionConfigs :
          injector' = updateConfig(injector, partial)
    /\ UNCHANGED <<telemetryVars, serverVars, apiVars>>
    /\ UNCHANGED <<now, config, randomStream, randomCalls, activeSpans,
                   telemetryEvents, spans, inv, contexts, client, hookVars,
                   processed, errorVars>>

NextInjection ==
    \/ InjectContextIntoSchema
    \/ StripThenExtract
    \/ ProcessToolSchema
    \/ ProcessToolArguments
    \/ UpdateConfig

SpecInjection == Init /\ [][NextInjection]_vars

\* tools/call requests that carry the intent under either name
ToolRequests ==
    [id : {"req-1"}, method : {"tools/call"},
     arguments : { [query |-> "x", context |-> "because"],
                   [query |-> "x", intent |-> "because"] }]

InvokeTool(i) == \E request \in ToolRequests : Enter(i, request, NoFault)

\* the input schema of the tool the server offers
ToolSchema ==
    [type |-> "object", properties |-> [query |-> [type |-> "string"]]]

\* the tool's schema is processed for registration
RegisterTool == ProcessToolSchemaOf({ToolSchema})

\* the arguments of a tools/call request are processed
ProcessCall ==
    ProcessToolArgumentsOf({r.arguments : r \in ToolRequests})

\* a tracked server whose context injector is used and reconfigured while
\* it serves tools/call requests
NextServerInjection ==
    \/ UpdateConfig
    \/ RegisterTool
    \/ ProcessCall
    \/ \E i \in Invocations : InvokeTool(i)
    \/ \E i \in Invocations : Resolve(i)

SpecServerInjection == Init /\ [][NextServerInjection]_vars

\* ---------------------------------------------- the error handler, driven
\* Date.now() when the first error is handled
Epoch == 1000000

\* the state after construction, at a time of day
InitErrors ==
    /\ now = Epoch
    /\ config \in Configs
    /\ randomStream = [k \in 1..(MaxInvocations + MaxSpans) |-> k]
    /\ randomCalls = 0
    /\ activeSpans = << >>
    /\ telemetryEvents = << >>
    /\ spans = << >>
    /\ inv = [i \in Invocations |-> Idle]
    /\ contexts = << >>
    /\ client = [op |-> Undefined, operationId |-> UnknownOperationId,
                 live |-> FALSE, threw |-> FALSE]
    /\ hooks = << >>
    /\ run = NoRun
    /\ injector = ContextInjectionMiddleware(config.contextInjection)
    /\ processed = NoCall
    /\ errorHandler = MCPErrorHandler
    /\ handled = NotHandled
    /\ providers = <<ConsoleTelemetryProvider>>
    /\ memoryOptions = NoObject
    /\ telemetryCall = NoTelemetryCall
    /\ servers = [s \in Servers |-> Server]
    /\ trackers = << >>
    /\ serverCall = NoServerCall
    /\ InitApi

\* the pieces of text of error messages: the classifier's keywords, a
\* keyword in another case, and text that is no keyword
Pieces ==
    {"timeout", "connection", "ECONNREFUSED", "authentication",
     "unauthorized", "permission", "forbidden", "not found", "Timeout",
     "widget"}

\* the messages of at most MaxPieces pieces
Messages == {m \in SUBSET Pieces : Cardinality(m) <= MaxPieces}

\* errors that are not MCPErrors
PlainErrors == [name : {"Error", "TimeoutError"}, message : Messages]

\* MCPErrors made before they are handled: Errors.timeout(operation),
\* Errors.resourceExhausted(resource) and Errors.invalidParams(param)
GivenErrors ==
    { [name |-> "MCPError", type |-> "timeout",
       message |-> {"Operation timed out", "widget"}, code |-> "TIMEOUT",
       details |-> [operation |-> "widget"], retryable |-> FALSE,
       timestamp |-> Epoch, instance |-> "given"],
      [name |-> "MCPError", type |-> "resource_exhausted",
       message |-> {"Resource exhausted", "connection"},
       code |-> "RESOURCE_EXHAUSTED", details |-> [resource |-> "connection"],
       retryable |-> TRUE, timestamp |-> Epoch, instance |-> "given"],
      [name |-> "MCPError", type |-> "invalid_params",
       message |-> {"Invalid parameter", "timeout"},
       code |-> "INVALID_PARAMS", details |-> NoObject,
       retryable |-> FALSE, timestamp |-> Epoch, instance |-> "given"] }

\* the number of errors counted
RECURSIVE SumCounts(_, _)
SumCounts(counts, types) ==
    IF types = {} THEN 0
    ELSE LET errorType == CHOOSE x \in types : TRUE
         IN  counts[errorType] + SumCounts(counts, types \ {errorType})

\* errorHandler.handleError(error)
HandleError(error) ==
    /\ LET r == handleError(errorHandler, error, now)
       IN  /\ errorHandler' = r.handler
           /\ handled' = [error |-> error, returned |-> r.returned,
                          warned |-> r.warned, at |-> now]
    /\ UNCHANGED <<telemetryVars, serverVars, apiVars>>
    /\ UNCHANGED <<now, config, randomStream, randomCalls, activeSpans,
                   telemetryEvents, spans, inv, contexts, client, hookVars,
                   injectorVars>>

\* an error of any kind is handled
Classify ==
    /\ SumCounts(errorHandler.errorCounts, DOMAIN errorHandler.errorCounts)
         < MaxClassified
    /\ \E error \in PlainErrors \cup GivenErrors : HandleError(error)

NextClassifier == Classify

SpecClassifier == InitErrors /\ [][NextClassifier]_vars

\* the errors of a storm: a connection failure and a lookup failure
StormErrors ==
    { [name |-> "Error", message |-> {"ECONNREFUSED"}],
      [name |-> "Error", message |-> {"not found", "widget"}] }

\* one more error of a type counted fewer than MaxCount times
Fail ==
    \E error \in StormErrors :
        /\ GetOrZero(errorHandler.errorCounts,
                     convertToMCPError(error, now).type) < MaxCount
        /\ HandleError(error)

\* errorHandler.setErrorThreshold(threshold)
SetErrorThreshold ==
    /\ errorHandler' = setErrorThreshold(errorHandler, StormThreshold)
    /\ UNCHANGED <<telemetryVars, serverVars, apiVars>>
    /\ UNCHANGED <<now, config, randomStream, randomCalls, activeSpans,
                   telemetryEvents, spans, inv, contexts, client, hookVars,
                   injectorVars, handled>>

\* GapMs milliseconds pass
Elapse ==
    /\ now + GapMs <= Epoch + MaxGaps * GapMs
    /\ now' = now + GapMs
    /\ UNCHANGED <<telemetryVars, serverVars, apiVars>>
    /\ UNCHANGED <<config, randomStream, randomCalls, activeSpans,
                   telemetryEvents, spans, inv, contexts, client, hookVars,
                   injectorVars, errorVars>>

NextStorm ==
    \/ Fail
    \/ SetErrorThreshold
    \/ Elapse

SpecStorm == InitErrors /\ [][NextStorm]_vars

\* hooks added to the tracker of a server that serves requests
NextServerHooks ==
    \/ AddHook
    \/ \E i \in Invocations : Invoke(i)
    \/ \E i \in Invocations : Resolve(i)

SpecServerHooks == Init /\ [][NextServerHooks]_vars

\* ------------------------------------------------------------- the claims
\* positions of the events of a type that carry an operation id
EventsOf(events, type, operationId) ==
    {k \in DOMAIN events :
        events[k].type = type /\ events[k].data.operationId = operationId}

\* exactly one request_start and one request_end of the operation, in order
PairRecorded(events, operationId) ==
    /\ Cardinality(EventsOf(events, "request_start", operationId)) = 1
    /\ Cardinality(EventsOf(events, "request_end", operationId)) = 1
    /\ \A s \in EventsOf(events, "request_start", operationId),
          e \in EventsOf(events, "request_end", operationId) : s < e

\* invocation i passes from the await of its handler to completion
Completes(i) == inv[i].pc = "awaiting" /\ inv'[i].pc = "done"

\* invocation i is dispatched and reaches the await of its handler
Begins(i) == inv[i].pc = "idle" /\ inv'[i].pc = "awaiting"

OperationId(i) == inv[i].context.operationId

\* C1 as stated: when a wrapped invocation completes, the log holds exactly
\* one request-start and exactly one request-end event with its operation
\* id, the start before the end.
C1_PairForEveryInvocation ==
    [][\A i \in Invocations :
          Completes(i) => PairRecorded(telemetryEvents', OperationId(i))]_vars

\* C1 amended: an invocation records exactly one request-start when it
\* begins; when it completes with its span still live (no shutdown since it
\* began) the log holds exactly one request-start and one request-end of
\* its operation id, in that order; when shutdown ran in between, the
\* completion records nothing.
C1_PairUnlessShutdown ==
    [][\A i \in Invocations :
          /\ Begins(i) =>
                /\ Cardinality(EventsOf(telemetryEvents', "request_start",
                                        inv'[i].context.operationId)) = 1
                /\ EventsOf(telemetryEvents', "request_end",
                            inv'[i].context.operationId) = {}
                /\ Len(telemetryEvents') = Len(telemetryEvents) + 1
          /\ Completes(i) /\ OperationId(i) \in DOMAIN activeSpans =>
                /\ PairRecorded(telemetryEvents', OperationId(i))
                /\ Len(telemetryEvents') = Len(telemetryEvents) + 1
          /\ Completes(i) /\ OperationId(i) \notin DOMAIN activeSpans =>
                telemetryEvents' = telemetryEvents]_vars

\* an invocation has completed and the log holds its pair of events
C1_Witness ==
    \E i \in Invocations :
        /\ inv[i].pc = "done"
        /\ PairRecorded(telemetryEvents, OperationId(i))

\* the field that carries the intent in tool arguments
IntentParameter == config.contextInjection.parameterName

\* C2: for a tools/call invocation whose arguments contain the intent
\* field, the original handler is invoked with the arguments without that
\* field, all other keys unchanged.
C2_HandlerNeverSeesIntent ==
    \A i \in Invocations :
        ( /\ inv[i].called
          /\ inv[i].request.method = "tools/call"
          /\ IntentParameter \in DOMAIN inv[i].request.arguments )
        => inv[i].received = Without(inv[i].request.arguments, IntentParameter)

\* failedRequests of the metrics snapshot, now and after the step
FailedRequests == getCurrentMetrics(TrackerState, now).failedRequests

FailedRequestsAfter ==
    getCurrentMetrics(Tracker(activeSpans', telemetryEvents', spans'),
                      now').failedRequests

\* invocation i completes and its handler threw
Fails(i) == Completes(i) /\ inv'[i].settled.kind = "throw"

\* the wrapper throws the very error object its handler threw
Rethrown(i) ==
    inv'[i].outcome = [kind |-> "throw", value |-> inv'[i].settled.value]

C4_TracingFailureTransparent ==
    \A i \in Invocations :
        inv[i].pc = "done" =>
            inv[i].called /\ inv[i].outcome = inv[i].settled

\* the live-span map holds spans of pending invocations only
NoLeak ==
    DOMAIN activeSpans \subseteq
        {inv[i].context.operationId :
            i \in {j \in Invocations : inv[j].pc = "awaiting"}}

\* C5: a wrapped call adds its own span to the live-span map when it
\* begins and a successful completion removes it again and returns the
\* handler's result unchanged, so that no span outlives its call and the
\* count returns to what it was.
C5_NoLeakedSpan ==
    [][/\ \A i \in Invocations :
            /\ Begins(i) =>
                  /\ inv'[i].context.operationId \notin DOMAIN activeSpans
                  /\ DOMAIN activeSpans' =
                       DOMAIN activeSpans \cup {inv'[i].context.operationId}
            /\ Completes(i) /\ inv'[i].settled.kind = "return" =>
                  /\ DOMAIN activeSpans' =
                       DOMAIN activeSpans \ {OperationId(i)}
                  /\ inv'[i].outcome =
                       [kind |-> "return", value |-> inv'[i].settled.value]
       /\ NoLeak']_vars

\* a successful call has completed with nothing left in the live-span map
C5_Witness ==
    \E i \in Invocations :
        /\ inv[i].pc = "done"
        /\ inv[i].outcome.kind = "return"
        /\ spans[inv[i].span].ended = 1
        /\ spans[inv[i].span].status.code = "OK"
        /\ getActiveSpanCount(TrackerState) = 0

TrackerStateAfter == Tracker(activeSpans', telemetryEvents', spans')

\* C6: endMCPSpan for an operation id without a live span throws nothing
\* and leaves the live-span map, the event log, the spans and the metrics
\* as they are; a second endMCPSpan of an operation adds no request-end.
C6_EndWithoutLiveSpanIsNoOp ==
    [][client'.op = "endMCPSpan" /\ ~client'.live =>
          /\ ~client'.threw
          /\ activeSpans' = activeSpans
          /\ telemetryEvents' = telemetryEvents
          /\ spans' = spans
          /\ getCurrentMetrics(TrackerStateAfter, now') =
               getCurrentMetrics(TrackerState, now)]_vars

\* endMCPSpan was called a second time for an operation already ended, and
\* the log holds one request-end of it
C6_Witness ==
    /\ client.op = "endMCPSpan"
    /\ ~client.live
    /\ ~client.threw
    /\ Cardinality(EventsOf(telemetryEvents, "request_end",
                            client.operationId)) = 1

\* C7: end() is never invoked twice on a span, every span that is not
\* ended is the live span of its operation id, so that once an operation
\* is ended or the tracker is shut down no opened span is left un-ended.
C7_EverySpanEndedOnce ==
    \A s \in DOMAIN spans :
        /\ spans[s].ended <= 1
        /\ spans[s].ended = 0 =>
              \E operationId \in DOMAIN activeSpans :
                  activeSpans[operationId] = s

\* C8: with N request-end events in the log, k of them failed, the metrics
\* report totalRequests = N, failedRequests = k, successfulRequests = N - k
\* and averageDuration = (d1 + ... + dN) / N.
C8_MetricsArithmetic ==
    LET ends == RequestEnds(telemetryEvents)
        N == Len(ends)
        k == Cardinality({j \in DOMAIN ends : ~ends[j].data.success})
        m == getCurrentMetrics(TrackerState, now)
    IN  /\ m.totalRequests = N
        /\ m.failedRequests = k
        /\ m.successfulRequests = N - k
        /\ m.averageDuration.num * N = SumDurations(ends) * m.averageDuration.den

ShutDownWhilePending(i) ==
    /\ inv[i].pc = "awaiting"
    /\ spans[inv[i].span].status =
         [code |-> "ERROR", message |-> "Tracker shutdown"]

\* C10: an invocation whose span shutdown force-ended while its handler
\* was pending completes with the handler's own result or error, its span
\* is not ended again and the live-span map is left as it is, without the
\* operation.
C10_ShutdownWhilePending ==
    [][\A i \in Invocations :
          Completes(i) /\ ShutDownWhilePending(i) =>
             /\ inv'[i].outcome = inv'[i].settled
             /\ spans[inv[i].span].ended = 1
             /\ spans' = spans
             /\ activeSpans' = activeSpans
             /\ OperationId(i) \notin DOMAIN activeSpans'
             /\ telemetryEvents' = telemetryEvents]_vars

\* an invocation has completed after shutdown force-ended its span
C10_Witness ==
    \E i \in Invocations :
        /\ inv[i].pc = "done"
        /\ inv[i].outcome = inv[i].settled
        /\ spans[inv[i].span].status.message = "Tracker shutdown"
        /\ spans[inv[i].span].ended = 1

\* the ids of the hooks of a list that have the callback, in list order
WithCallback(hs, callback) ==
    LET having == SelectSeq(hs, LAMBDA h : h[callback] # "none")
    IN  [k \in DOMAIN having |-> having[k].id]

\* s can be had from t by leaving elements out
RECURSIVE IsSubsequence(_, _)
IsSubsequence(s, t) ==
    IF s = << >> THEN TRUE
    ELSE IF t = << >> THEN FALSE
    ELSE IF Head(s) = Head(t) THEN IsSubsequence(Tail(s), Tail(t))
    ELSE IsSubsequence(s, Tail(t))

\* an execute...Hooks call returns to its caller
HooksExecuted == run' # run /\ run'.state = "resolved"

\* C11: when executeBeforeHooks, executeAfterHooks or executeErrorHooks
\* returns, the callback of every registered hook that has one has been
\* run, in registration order, whatever callbacks threw or rejected, and
\* the call resolves.
C11_EveryRegisteredHookRuns ==
    [][HooksExecuted =>
          /\ run'.state = "resolved"
          /\ IsSubsequence(WithCallback(hooks', run'.callback),
                           [k \in DOMAIN run'.ran |-> run'.ran[k].hook])]_vars

\* the step ran the callbacks of every registered hook that has the callback
HooksRan(callback) ==
    /\ run' # run
    /\ run'.callback = callback
    /\ IsSubsequence(WithCallback(hooks, callback),
                     [k \in DOMAIN run'.ran |-> run'.ran[k].hook])

\* C12: an invocation of a wrapped handler runs the beforeMethod callbacks
\* of the tracker's hooks before it calls the original handler, and the
\* afterMethod callbacks once the handler has returned, or the onError
\* callbacks once it has thrown.
C12_HooksAroundHandler ==
    [][\A i \in Invocations :
          /\ Begins(i) /\ WithCallback(hooks, "beforeMethod") # << >> =>
                HooksRan("beforeMethod")
          /\ Completes(i) /\ inv'[i].settled.kind = "return"
                /\ WithCallback(hooks, "afterMethod") # << >> =>
                HooksRan("afterMethod")
          /\ Completes(i) /\ inv'[i].settled.kind = "throw"
                /\ WithCallback(hooks, "onError") # << >> =>
                HooksRan("onError")]_vars

\* C13: extractContextFromArgs of stripContextFromArgs of any arguments
\* object is undefined; and for arguments that hold a string under the
\* configured parameter name, processToolArguments returns that string as
\* context and, as cleanedArgs, the arguments without that key, every
\* other key and value kept, the arguments object itself left as it was.
C13_ExtractionRoundTrip ==
    /\ processed.op = "stripThenExtract" =>
          /\ processed.output.context = Undefined
          /\ processed.output.input = processed.input.args
    /\ processed.op = "processToolArguments" =>
          LET args == processed.input.args
              parameterName == processed.input.config.parameterName
              cleanedArgs == processed.output.cleanedArgs
          IN  ( /\ parameterName \in DOMAIN args
                /\ TypeOf(args[parameterName]) = "string" ) =>
                  /\ processed.output.context = args[parameterName]
                  /\ DOMAIN cleanedArgs = DOMAIN args \ {parameterName}
                  /\ \A k \in DOMAIN cleanedArgs : cleanedArgs[k] = args[k]
                  /\ processed.output.input = args

\* processToolArguments under the name "intent" took the intent out of
\* arguments that hold a query and an intent
C13_Witness ==
    /\ processed.op = "processToolArguments"
    /\ processed.input.config.parameterName = "intent"
    /\ processed.input.args = [query |-> "x", intent |-> "because"]
    /\ processed.output.context = "because"
    /\ processed.output.cleanedArgs = [query |-> "x"]

\* the properties of a schema, none for no schema or a schema without any
PropertiesOf(schema) ==
    IF schema # NoObject /\ "properties" \in DOMAIN schema
    THEN schema.properties ELSE << >>

\* the last call was injectContextIntoSchema with injection enabled or not
Injected(enabled) ==
    /\ processed.op = "injectContextIntoSchema"
    /\ Spread(DefaultInjection, processed.input.config).enabled = enabled

\* the name the last injectContextIntoSchema call injects under
InjectedName == Spread(DefaultInjection, processed.input.config).parameterName

\* with enabled false the input schema itself comes back, unchanged
DisabledReturnsInput ==
    Injected(FALSE) =>
        /\ processed.output.same
        /\ processed.output.schema = processed.input.schema
        /\ processed.output.input = processed.input.schema

\* C14 as stated: with enabled false injectContextIntoSchema returns its
\* input schema itself, unchanged; with enabled true it returns a new
\* schema whose properties are the input's properties plus exactly one
\* added string-typed property under the configured name, the input
\* schema not mutated.
C14_ExactlyOneAdded ==
    /\ DisabledReturnsInput
    /\ Injected(TRUE) =>
          LET before == PropertiesOf(processed.input.schema)
              after == PropertiesOf(processed.output.schema)
          IN  /\ ~processed.output.same
              /\ processed.output.input = processed.input.schema
              /\ InjectedName \notin DOMAIN before
              /\ DOMAIN after = DOMAIN before \cup {InjectedName}
              /\ \A k \in DOMAIN before : after[k] = before[k]
              /\ after[InjectedName].type = "string"

\* C14 amended: with enabled false the input schema itself comes back,
\* unchanged; with enabled true a new schema comes back whose property
\* under the configured name is the string-typed intent property, added
\* when the input has no property of that name and put in the place of
\* the input's property of that name when it has one, every other
\* property and every other field but required as in the input, the input
\* schema not mutated.
C14_InjectedPropertySet ==
    /\ DisabledReturnsInput
    /\ Injected(TRUE) =>
          LET before == PropertiesOf(processed.input.schema)
              after == PropertiesOf(processed.output.schema)
              input == processed.input.schema
              output == processed.output.schema
          IN  /\ ~processed.output.same
              /\ processed.output.input = input
              /\ DOMAIN after = DOMAIN before \cup {InjectedName}
              /\ \A k \in DOMAIN before \ {InjectedName} :
                    after[k] = before[k]
              /\ after[InjectedName].type = "string"
              /\ hasContextInjection(output, InjectedName)
              /\ InjectedName \notin DOMAIN before =>
                    Cardinality(DOMAIN after) = Cardinality(DOMAIN before) + 1
              /\ InjectedName \in DOMAIN before =>
                    Cardinality(DOMAIN after) = Cardinality(DOMAIN before)
              /\ input # NoObject =>
                    \A f \in DOMAIN input \ {"properties", "required"} :
                        f \in DOMAIN output /\ output[f] = input[f]

\* injection under the name "context" into a schema with two properties
\* gave a new schema with three
C14_Witness ==
    /\ Injected(TRUE)
    /\ InjectedName = "context"
    /\ DOMAIN PropertiesOf(processed.input.schema) = {"query", "limit"}
    /\ DOMAIN PropertiesOf(processed.output.schema) =
         {"query", "limit", "context"}
    /\ ~processed.output.same

\* the last schema processing injected under the name configured then
SchemaUsesConfiguredName ==
    processed.op = "processToolSchema" /\ processed.input.config.enabled =>
        hasContextInjection(processed.output.schema,
                            processed.input.config.parameterName)

\* the last argument processing extracted and stripped under the name
\* configured then
ArgumentsUseConfiguredName ==
    processed.op = "processToolArguments" =>
        LET args == processed.input.args
            parameterName == processed.input.config.parameterName
        IN  /\ processed.output.context =
                 IF TypeOf(Get(args, parameterName)) = "string"
                 THEN args[parameterName] ELSE Undefined
            /\ processed.output.cleanedArgs = Without(args, parameterName)

\* the intent the span of invocation i carries once its handler is called
RecordedIntent(i) ==
    Get(spans'[inv'[i].span].attributes, "mcp_tool_ai_context")

\* C15: schema injection, argument processing and the wrapped tools/call
\* handler all use the parameter name the server's context injection is
\* configured with at the time: the injector injects and extracts under
\* it, and the wrapper records as intent the argument under it.
C15_OneParameterName ==
    [][/\ SchemaUsesConfiguredName'
       /\ ArgumentsUseConfiguredName'
       /\ \A i \in Invocations :
             Begins(i) /\ inv'[i].request.method = "tools/call" =>
                 RecordedIntent(i) =
                     Get(inv'[i].request.arguments,
                         injector.parameterName)]_vars

\* event.data?.metadata?.aiContext
EventIntent(event) ==
    IF "metadata" \in DOMAIN event.data
    THEN Get(event.data.metadata, "aiContext") ELSE Undefined

\* C16: when a tools/call invocation whose arguments carry a string intent
\* completes, an event of its operation in the log has metadata.aiContext
\* equal to that intent.
C16_EventCarriesIntent ==
    [][\A i \in Invocations :
          ( /\ Completes(i)
            /\ inv[i].request.method = "tools/call"
            /\ Truthy(Get(inv[i].request.arguments, "context")) ) =>
              \E k \in DOMAIN telemetryEvents' :
                  /\ telemetryEvents'[k].data.operationId = OperationId(i)
                  /\ EventIntent(telemetryEvents'[k]) =
                       inv[i].request.arguments.context]_vars

\* the pieces of text of the messages of the errors handlers throw
MessagePieces(message) ==
    IF message = "not found: widget" THEN {"not found", "widget"}
    ELSE {message}

\* the error a handler threw, as the classifier is given it
ThrownError(e) ==
    [name |-> "Error", message |-> MessagePieces(ErrorMessage(e))]

\* C17: the error recorded in the request-end event of a failed invocation
\* has the MCPError shape, its type being the taxonomy type the classifier
\* gives the handler's error; the error "not found: widget" is recorded
\* as resource_not_found.
C17_RecordedErrorNormalized ==
    [][\A i \in Invocations :
          Fails(i) /\ OperationId(i) \in DOMAIN activeSpans =>
             \E k \in EventsOf(telemetryEvents', "request_end",
                                OperationId(i)) :
                LET error == telemetryEvents'[k].data.error
                    thrown == ThrownError(inv'[i].settled.value)
                IN  /\ error # NoObject
                    /\ "type" \in DOMAIN error
                    /\ error.type \in MCPErrorType
                    /\ error.type = convertToMCPError(thrown, now).type
                    /\ ErrorMessage(inv'[i].settled.value)
                          = "not found: widget" =>
                          error.type = "resource_not_found"]_vars

\* the type the ordered keyword match on the message gives
TypeByMessage(message) ==
    IF Includes(message, "timeout") THEN "timeout"
    ELSE IF Includes(message, "connection")
            \/ Includes(message, "ECONNREFUSED") THEN "connection_error"
    ELSE IF Includes(message, "authentication")
            \/ Includes(message, "unauthorized") THEN "authentication_failed"
    ELSE IF Includes(message, "permission")
            \/ Includes(message, "forbidden") THEN "authorization_failed"
    ELSE IF Includes(message, "not found") THEN "resource_not_found"
    ELSE "internal_error"

\* an MCPError that is handled comes back as the same instance
GivenErrorReturned ==
    handled.error # NoObject /\ IsMCPError(handled.error) =>
        /\ handled.returned = handled.error
        /\ handled.returned.instance = "given"
        /\ handled.returned.type = handled.error.type

\* C18 as stated: an error that is not an MCPError gets the type of the
\* first match of the ordered keyword match on its message, internal_error
\* without a match; an MCPError comes back as the same instance with its
\* type.
C18_TypeByMessageOnly ==
    /\ GivenErrorReturned
    /\ handled.error # NoObject /\ ~IsMCPError(handled.error) =>
          handled.returned.type = TypeByMessage(handled.error.message)

\* C18 amended: an error that is not an MCPError and is named TimeoutError
\* gets the type timeout whatever its message; any other gets the type of
\* the first match of the ordered keyword match on its message,
\* internal_error without a match; the MCPError made carries the error's
\* message and the error as details; an MCPError comes back as the same
\* instance with its type.
C18_TypeByNameThenMessage ==
    /\ GivenErrorReturned
    /\ handled.error # NoObject /\ ~IsMCPError(handled.error) =>
          /\ handled.returned.type =
                IF handled.error.name = "TimeoutError" THEN "timeout"
                ELSE TypeByMessage(handled.error.message)
          /\ handled.returned.type \in MCPErrorType
          /\ handled.returned.instance = "made"
          /\ handled.returned.message = handled.error.message
          /\ handled.returned.details = handled.error

\* an error whose message holds two keywords got the type of the one
\* that is looked for first
C18_Witness ==
    /\ handled.error = [name |-> "Error",
                        message |-> {"not found", "forbidden"}]
    /\ handled.returned.type = "authorization_failed"
    /\ handled.returned.instance = "made"

\* the step is a handleError call
Handles ==
    <<errorHandler.errorCounts, errorHandler.lastErrorTime>>' #
    <<errorHandler.errorCounts, errorHandler.lastErrorTime>>

\* the type of the error the step handles, and its count before and after
HandledType == handled'.returned.type

CountBefore == GetOrZero(errorHandler.errorCounts, HandledType)

CountAfter == GetOrZero(errorHandler'.errorCounts, HandledType)

\* the call before this one handled an error of the same type
PreviousOfSameType ==
    handled.error # NoObject /\ handled.returned.type = HandledType

\* C19: the storm warning is written for the error that brings the count
\* of its type to the threshold, and not again for the next error of that
\* type counted in the same window; the error handled is returned as it
\* is classified.
C19_WarnedOncePerStorm ==
    [][Handles =>
          /\ CountAfter = errorHandler'.errorThreshold => handled'.warned
          /\ ~( /\ PreviousOfSameType
                /\ handled.warned
                /\ CountAfter = CountBefore + 1
                /\ handled'.warned )
          /\ handled'.returned = convertToMCPError(handled'.error, now)]_vars

\* C20: on a handled error of type T following one of type T, the count
\* of T is 1 when more than the window has passed since that previous
\* error and one more than before otherwise; the first error of a type
\* counts 1; the last-seen time of T is the time of this error; the counts
\* of the other types are as before.
C20_CountPerTypeSinceLastSeen ==
    [][Handles =>
          /\ PreviousOfSameType =>
                CountAfter =
                    IF handled'.at - handled.at > errorHandler.timeWindow
                    THEN 1 ELSE CountBefore + 1
          /\ HandledType \notin DOMAIN errorHandler.errorCounts =>
                CountAfter = 1
          /\ getErrorStats(errorHandler')[HandledType] =
                [count |-> CountAfter, lastOccurrence |-> handled'.at]
          /\ \A other \in MCPErrorType \ {HandledType} :
                GetOrZero(errorHandler'.errorCounts, other) =
                GetOrZero(errorHandler.errorCounts, other)]_vars

\* ------------------------------------------------ a tracker with a long log
\* Event k of a log written by earlier operations, each started and ended
\* in the millisecond before the run: operation (k + 1) \div 2 starts at an
\* odd k and ends at the next k.
EarlierEvent(k) ==
    LET operationId == generateOperationId(0 - 1, 0 - ((k + 1) \div 2))
    IN  IF k % 2 = 1
        THEN [type |-> "request_start", timestamp |-> 0 - 1,
              data |-> [operationId |-> operationId, method |-> "tools/list",
                        metadata |-> [method |-> "tools/list",
                                      requestId |-> Undefined,
                                      params |-> NoObject],
                        projectId |-> Undefined],
              spanContext |-> spanContext(0 - ((k + 1) \div 2))]
        ELSE [type |-> "request_end", timestamp |-> 0 - 1,
              data |-> [operationId |-> operationId, success |-> TRUE,
                        duration |-> 0, error |-> NoObject,
                        projectId |-> Undefined],
              spanContext |-> spanContext(0 - ((k + 1) \div 2))]

\* the log after n such events, n at most maxEvents
EarlierEvents(n) == [k \in 1..n |-> EarlierEvent(k)]

\* the tracker after earlier operations left its log Headroom or fewer
\* events short of maxEvents
InitLog ==
    /\ now = 0
    /\ config \in Configs
    /\ randomStream = [k \in 1..(MaxInvocations + MaxSpans) |-> k]
    /\ randomCalls = 0
    /\ activeSpans = << >>
    /\ \E n \in (maxEvents - Headroom)..maxEvents :
         telemetryEvents = EarlierEvents(n)
    /\ spans = << >>
    /\ inv = [i \in Invocations |-> Idle]
    /\ contexts = << >>
    /\ client = [op |-> Undefined, operationId |-> UnknownOperationId,
                 live |-> FALSE, threw |-> FALSE]
    /\ hooks = << >>
    /\ run = NoRun
    /\ injector = ContextInjectionMiddleware(config.contextInjection)
    /\ processed = NoCall
    /\ errorHandler = MCPErrorHandler
    /\ handled = NotHandled
    /\ providers = <<ConsoleTelemetryProvider>>
    /\ memoryOptions = NoObject
    /\ telemetryCall = NoTelemetryCall
    /\ servers = [s \in Servers |-> Server]
    /\ trackers = << >>
    /\ serverCall = NoServerCall
    /\ InitApi

NextLog ==
    \/ ClientStartSpan
    \/ ClientRestartSpan
    \/ ClientEndSpan
    \/ Shutdown

SpecLog == InitLog /\ [][NextLog]_vars

\* the step is a startMCPSpan call that opened a span
StartsSpan ==
    /\ client'.op = "startMCPSpan"
    /\ Len(spans') = Len(spans) + 1

\* the step is an endMCPSpan call that ended a live span
EndsSpan ==
    /\ client'.op = "endMCPSpan"
    /\ client'.operationId \in DOMAIN activeSpans
    /\ client'.operationId \notin DOMAIN activeSpans'

\* the step appended an event of the given type for the operation the
\* client named, and the log is the last maxEvents events of the log
\* before followed by that event
Appended(type) ==
    /\ telemetryEvents' # << >>
    /\ LET event == telemetryEvents'[Len(telemetryEvents')]
       IN  /\ event.type = type
           /\ event.data.operationId = client'.operationId
           /\ telemetryEvents' =
                LastOf(Append(telemetryEvents, event), maxEvents)

\* C21: the tracker's log never holds more than maxEvents (1,000) events;
\* a start or an end of a span appends its event at the end and, when the
\* log is over the limit, drops events from the front only, so the log is
\* the most recently appended events in insertion order; and
\* getTelemetryEvents() returns the log in that order.
C21_LogBoundedOldestEvictedFirst ==
    [][/\ Len(telemetryEvents') <= maxEvents
       /\ StartsSpan => Appended("request_start")
       /\ EndsSpan => Appended("request_end")
       /\ getTelemetryEvents(TrackerStateAfter) = telemetryEvents']_vars

\* C21 witness: a full log whose two oldest events were evicted and whose
\* newest event is one of the run
C21_Witness ==
    /\ Len(telemetryEvents) = maxEvents
    /\ telemetryEvents[1] = EarlierEvent(3)
    /\ telemetryEvents[maxEvents].timestamp = now

\* ------------------------------------- the telemetry manager and its sinks
\* the events recorded at time t: the start of an operation, and its
\* successful and its failed end
TelemetryEvents(t) ==
    { [type |-> "request_start", timestamp |-> t,
       data |-> [operationId |-> generateOperationId(t, 1),
                 method |-> "tools/list"]] } \cup
    { [type |-> "request_end", timestamp |-> t,
       data |-> [operationId |-> generateOperationId(t, 1),
                 success |-> success,
                 duration |-> IF success THEN MaxDuration ELSE 0]] :
        success \in BOOLEAN }

\* the sinks a manager or a composite sink is given
Sinks ==
    {MemoryTelemetryProvider(NoObject), OTLPTTelemetryProvider,
     ThrowingProvider}

\* new DefaultTelemetryManager([]), new CompositeTelemetryProvider()
InitTelemetry ==
    /\ now = 0
    /\ config = [projectId |-> Undefined, defaultAttributes |-> << >>,
                 contextInjection |-> [parameterName |-> "context"]]
    /\ randomStream = [k \in 1..(MaxInvocations + MaxSpans) |-> k]
    /\ randomCalls = 0
    /\ activeSpans = << >>
    /\ telemetryEvents = << >>
    /\ spans = << >>
    /\ inv = [i \in Invocations |-> Idle]
    /\ contexts = << >>
    /\ client = [op |-> Undefined, operationId |-> UnknownOperationId,
                 live |-> FALSE, threw |-> FALSE]
    /\ hooks = << >>
    /\ run = NoRun
    /\ injector = ContextInjectionMiddleware(config.contextInjection)
    /\ processed = NoCall
    /\ errorHandler = MCPErrorHandler
    /\ handled = NotHandled
    /\ providers = << >>
    /\ memoryOptions = NoObject
    /\ telemetryCall = NoTelemetryCall
    /\ servers = [s \in Servers |-> Server]
    /\ trackers = << >>
    /\ serverCall = NoServerCall
    /\ InitApi

\* addProvider(provider)
AddProvider ==
    /\ Len(providers) < MaxProviders
    /\ \E provider \in Sinks :
         /\ providers' = Append(providers, provider)
         /\ telemetryCall' = [NoTelemetryCall EXCEPT !.op = "addProvider"]
    /\ UNCHANGED <<now, config, randomStream, randomCalls, activeSpans,
                   telemetryEvents, spans, inv, contexts, client,
                   memoryOptions>>
    /\ UNCHANGED <<hookVars, injectorVars, errorVars, serverVars, apiVars>>

\* recordEvent(event) on the composite sink or on the manager holding the
\* providers
RecordEvent ==
    /\ Len(flatMapEvents(providers)) + Len(providers) <= MaxRecorded
    /\ \E event \in TelemetryEvents(now), via \in {"composite", "manager"} :
         LET r == IF via = "composite"
                  THEN Composite_recordEvent(providers, event)
                  ELSE Manager_recordEvent(providers, event)
         IN  /\ providers' = r.providers
             /\ telemetryCall' = [op |-> "recordEvent", via |-> via,
                                  event |-> event, delivered |-> r.delivered,
                                  threw |-> r.threw]
    /\ UNCHANGED <<now, config, randomStream, randomCalls, activeSpans,
                   telemetryEvents, spans, inv, contexts, client,
                   memoryOptions>>
    /\ UNCHANGED <<hookVars, injectorVars, errorVars, serverVars, apiVars>>

\* memoryProvider.recordEvent(event) on the k-th sink itself
RecordOnSink(k) ==
    /\ providers[k].kind = "memory"
    /\ Len(flatMapEvents(providers)) < MaxRecorded
    /\ \E event \in TelemetryEvents(now) :
         LET r == recordEvent(providers[k], event)
         IN  /\ providers' = [providers EXCEPT ![k] = r.provider]
             /\ telemetryCall' = [op |-> "recordEvent", via |-> "sink",
                                  event |-> event, delivered |-> <<k>>,
                                  threw |-> r.threw]
    /\ UNCHANGED <<now, config, randomStream, randomCalls, activeSpans,
                   telemetryEvents, spans, inv, contexts, client,
                   memoryOptions>>
    /\ UNCHANGED <<hookVars, injectorVars, errorVars, serverVars, apiVars>>

NextTelemetry ==
    \/ Tick
    \/ AddProvider
    \/ RecordEvent
    \/ \E k \in DOMAIN providers : RecordOnSink(k)

SpecTelemetry == InitTelemetry /\ [][NextTelemetry]_vars

\* the (timestamp, type) pair of an event
PairOf(event) == <<event.timestamp, event.type>>

\* the events of a sequence that carry the pair
WithPair(events, pair) == {i \in DOMAIN events : PairOf(events[i]) = pair}

\* C22: getEvents() of a composite sink returns events of its children
\* only, exactly one for every (timestamp, type) pair that some child
\* holds, in order of non-decreasing timestamp.
C22_MergedUniqueSorted ==
    LET all == flatMapEvents(providers)
        returned == Composite_getEvents(providers)
    IN  /\ Elements(returned) \subseteq Elements(all)
        /\ \A i \in DOMAIN all :
              Cardinality(WithPair(returned, PairOf(all[i]))) = 1
        /\ \A i, j \in DOMAIN returned :
              i < j => returned[i].timestamp <= returned[j].timestamp

\* C22 witness: two children hold events of the same pair, and the merge
\* without duplicates has a later event before an earlier one
C22_Witness ==
    LET all == flatMapEvents(providers)
        firsts == filterFirsts(all, 1)
    IN  /\ Len(providers) >= 2
        /\ Len(firsts) < Len(all)
        /\ \E i, j \in DOMAIN firsts :
              i < j /\ firsts[i].timestamp > firsts[j].timestamp
        /\ Composite_getEvents(providers) # firsts

\* the step is a recordEvent call on the composite sink or the manager
RecordsEvent ==
    /\ telemetryCall'.op = "recordEvent"
    /\ telemetryCall'.via \in {"composite", "manager"}
    /\ telemetryVars' # telemetryVars

\* C23: recordEvent on a composite sink or on the telemetry manager calls
\* recordEvent of every child, in the order of the children; every child
\* that stores events has the event as its newest one afterwards, also
\* the children behind one that throws; and the call does not throw.
C23_DeliveredToEveryChild ==
    [][RecordsEvent =>
          /\ telemetryCall'.delivered = [k \in DOMAIN providers |-> k]
          /\ ~telemetryCall'.threw
          /\ DOMAIN providers' = DOMAIN providers
          /\ \A k \in DOMAIN providers :
                providers[k].kind \in {"console", "memory"} =>
                  providers'[k].events =
                    Append(providers[k].events, telemetryCall'.event)]_vars

\* C23 witness: an event was recorded through a throwing child followed
\* by a storing child that holds the event
C23_Witness ==
    /\ telemetryCall.op = "recordEvent"
    /\ telemetryCall.via = "composite"
    /\ Len(providers) = 2
    /\ providers[1].kind = "throwing"
    /\ providers[2].kind = "memory"
    /\ providers[2].events # << >>
    /\ providers[2].events[Len(providers[2].events)] = telemetryCall.event
    /\ telemetryCall.delivered = <<1, 2>>

\* the metrics of each child
ChildMetrics == [k \in DOMAIN providers |-> getMetrics(providers[k], now)]

\* the sum of a field over the first k of the children's metrics
RECURSIVE SumOfChildren(_, _, _)
SumOfChildren(children, k, field) ==
    IF k = 0 THEN 0
    ELSE children[k][field] + SumOfChildren(children, k - 1, field)

\* the sum of a fractional field over the first k of the children's metrics
RECURSIVE RationalSumOfChildren(_, _, _)
RationalSumOfChildren(children, k, field) ==
    IF k = 0 THEN Rational(0, 1)
    ELSE RationalPlus(children[k][field],
                      RationalSumOfChildren(children, k - 1, field))

\* C24: getMetrics() of the composite sink and of the telemetry manager
\* agree on totalRequests, successfulRequests, failedRequests,
\* activeSessions, averageDuration and requestsPerSecond: the first four
\* are the sums of the children's values, the last two the children's
\* sum divided by the number of children, and all six are 0 without
\* children.
C24_SumsAndMeans ==
    LET n == Len(providers)
        children == ChildMetrics
        composite == Composite_getMetrics(providers, now)
        manager == Manager_getMetrics(providers, now)
    IN  /\ \A field \in {"totalRequests", "successfulRequests",
                         "failedRequests", "activeSessions"} :
              /\ composite[field] = SumOfChildren(children, n, field)
              /\ manager[field] = composite[field]
        /\ \A field \in {"averageDuration", "requestsPerSecond"} :
              /\ n > 0 =>
                   RationalEqual(
                     Rational(composite[field].num * n, composite[field].den),
                     RationalSumOfChildren(children, n, field))
              /\ n = 0 => composite[field].num = 0
              /\ RationalEqual(manager[field], composite[field])

\* C24 witness: two children that report different request counts and
\* different average durations
C24_Witness ==
    /\ Len(providers) = 2
    /\ LET first == getMetrics(providers[1], now)
           second == getMetrics(providers[2], now)
       IN  /\ first.totalRequests > second.totalRequests
           /\ second.totalRequests > 0
           /\ ~RationalEqual(first.averageDuration, second.averageDuration)
           /\ first.failedRequests # second.failedRequests

\* --------------------------------------------- a memory sink near its cap
\* the cap a memory sink is said to have: options.maxEvents when given at
\* construction, 10,000 otherwise
GivenCap(options) ==
    IF options # NoObject /\ "maxEvents" \in DOMAIN options
    THEN options.maxEvents ELSE MemoryMaxEvents

\* the options a memory sink is constructed with: none, or the README's
MemoryOptions == {NoObject, [maxEvents |-> 5000]}

\* new MemoryTelemetryProvider(options), after it recorded the events of
\* earlier operations up to Headroom or fewer short of the given cap
InitMemory ==
    /\ now = 0
    /\ config = [projectId |-> Undefined, defaultAttributes |-> << >>,
                 contextInjection |-> [parameterName |-> "context"]]
    /\ randomStream = [k \in 1..(MaxInvocations + MaxSpans) |-> k]
    /\ randomCalls = 0
    /\ activeSpans = << >>
    /\ telemetryEvents = << >>
    /\ spans = << >>
    /\ inv = [i \in Invocations |-> Idle]
    /\ contexts = << >>
    /\ client = [op |-> Undefined, operationId |-> UnknownOperationId,
                 live |-> FALSE, threw |-> FALSE]
    /\ hooks = << >>
    /\ run = NoRun
    /\ injector = ContextInjectionMiddleware(config.contextInjection)
    /\ processed = NoCall
    /\ errorHandler = MCPErrorHandler
    /\ handled = NotHandled
    /\ memoryOptions \in MemoryOptions
    /\ \E n \in (GivenCap(memoryOptions) - Headroom)..GivenCap(memoryOptions) :
         providers = <<[MemoryTelemetryProvider(memoryOptions)
                          EXCEPT !.events = EarlierEvents(n)]>>
    /\ telemetryCall = NoTelemetryCall
    /\ servers = [s \in Servers |-> Server]
    /\ trackers = << >>
    /\ serverCall = NoServerCall
    /\ InitApi

\* memoryProvider.recordEvent(event), until MaxRecorded events of the run
\* are the newest of the log
RecordOnMemory ==
    /\ LET events == providers[1].events
       IN  \/ Len(events) < MaxRecorded
           \/ events[Len(events) - MaxRecorded + 1].timestamp < 0
    /\ \E event \in TelemetryEvents(now) :
         LET r == recordEvent(providers[1], event)
         IN  /\ providers' = <<r.provider>>
             /\ telemetryCall' = [op |-> "recordEvent", via |-> "sink",
                                  event |-> event, delivered |-> <<1>>,
                                  threw |-> r.threw]
    /\ UNCHANGED <<now, config, randomStream, randomCalls, activeSpans,
                   telemetryEvents, spans, inv, contexts, client,
                   memoryOptions>>
    /\ UNCHANGED <<hookVars, injectorVars, errorVars, serverVars, apiVars>>

NextMemory ==
    \/ Tick
    \/ RecordOnMemory

SpecMemory == InitMemory /\ [][NextMemory]_vars

\* C25: a memory sink keeps at most the cap it was constructed with
\* (10,000 when none was given): after every recordEvent, getEvents()
\* returns the events returned before followed by the new one when these
\* are no more than the cap, and the most recent cap-many of them, in
\* insertion order, otherwise.
C25_RetainsMostRecentCap ==
    [][telemetryCall'.op = "recordEvent" /\ providers' # providers =>
          LET cap == GivenCap(memoryOptions)
              before == getEvents(providers[1])
              after == getEvents(providers'[1])
          IN  /\ Len(after) <= cap
              /\ after = LastOf(Append(before, telemetryCall'.event), cap)]_vars

\* the step appended one event to the tracker's log
AppendsEvent == Len(telemetryEvents') = Len(telemetryEvents) + 1

\* the newest event of the tracker's log after the step
AppendedEvent == telemetryEvents'[Len(telemetryEvents')]

\* C26: an event the tracker appends when a wrapped invocation begins or
\* completes is held by the sinks of the telemetry manager afterwards, and
\* when the completion appended its request-end event the manager's
\* totalRequests is one more than before.
C26_SinksReceiveTrackerEvents ==
    [][\A i \in Invocations :
          (Begins(i) \/ Completes(i)) /\ AppendsEvent =>
             /\ AppendedEvent \in Elements(flatMapEvents(providers'))
             /\ Completes(i) =>
                  Manager_getMetrics(providers', now').totalRequests =
                    Manager_getMetrics(providers, now).totalRequests + 1]_vars

\* ------------------------------------- wrapped invocations side by side
\* requests served through the wrapped server, their handlers pending at
\* the same time and settling in any order
NextConcurrent ==
    \/ Tick
    \/ \E i \in Invocations : Invoke(i)
    \/ \E i \in Invocations : Resolve(i)

SpecConcurrent == Init /\ [][NextConcurrent]_vars

\* the invocations started and not yet completed
InFlight == {i \in Invocations : inv[i].pc = "awaiting"}

InitIds ==
    /\ now = 0
    /\ config = [projectId |-> Undefined, defaultAttributes |-> << >>,
                 contextInjection |-> [parameterName |-> "context"]]
    /\ randomStream \in [1..(MaxInvocations + MaxSpans) -> 1..MaxRandom]
    /\ randomCalls = 0
    /\ activeSpans = << >>
    /\ telemetryEvents = << >>
    /\ spans = << >>
    /\ inv = [i \in Invocations |-> Idle]
    /\ contexts = << >>
    /\ client = [op |-> Undefined, operationId |-> UnknownOperationId,
                 live |-> FALSE, threw |-> FALSE]
    /\ hooks = << >>
    /\ run = NoRun
    /\ injector = ContextInjectionMiddleware(config.contextInjection)
    /\ processed = NoCall
    /\ errorHandler = MCPErrorHandler
    /\ handled = NotHandled
    /\ providers = <<ConsoleTelemetryProvider>>
    /\ memoryOptions = NoObject
    /\ telemetryCall = NoTelemetryCall
    /\ servers = [s \in Servers |-> Server]
    /\ trackers = << >>
    /\ serverCall = NoServerCall
    /\ InitApi

NextIds ==
    \/ Tick
    \/ ClientStartSpan
    \/ ClientEndSpan

SpecIds == InitIds /\ [][NextIds]_vars

\* C28: any two operation contexts created by createOperationContext
\* carry different operation ids, also when both are created in the same
\* millisecond.
C28_OperationIdsUnique ==
    \A j, k \in DOMAIN contexts :
        j # k => contexts[j].operationId # contexts[k].operationId

\* --------------------------------------------------- several servers
InitServers ==
    /\ now = 0
    /\ config = [projectId |-> Undefined, defaultAttributes |-> << >>,
                 contextInjection |-> [parameterName |-> "context"]]
    /\ randomStream = [k \in 1..(MaxInvocations + MaxSpans) |-> k]
    /\ randomCalls = 0
    /\ activeSpans = << >>
    /\ telemetryEvents = << >>
    /\ spans = << >>
    /\ inv = [i \in Invocations |-> Idle]
    /\ contexts = << >>
    /\ client = [op |-> Undefined, operationId |-> UnknownOperationId,
                 live |-> FALSE, threw |-> FALSE]
    /\ hooks = << >>
    /\ run = NoRun
    /\ injector = ContextInjectionMiddleware(config.contextInjection)
    /\ processed = NoCall
    /\ errorHandler = MCPErrorHandler
    /\ handled = NotHandled
    /\ providers = <<ConsoleTelemetryProvider>>
    /\ memoryOptions = NoObject
    /\ telemetryCall = NoTelemetryCall
    /\ servers = [s \in Servers |-> Server]
    /\ trackers = << >>
    /\ serverCall = NoServerCall
    /\ InitApi

\* the tools/list requests
ListRequests == {request \in Requests : request.method = "tools/list"}

\* the configs servers are tracked with
TrackConfigs == {cfg \in Configs : cfg.projectId = "proj_test"}

\* trackmcp(server, config)
Trackmcp(s) ==
    /\ Len(trackers) < MaxTracked
    /\ \E cfg \in TrackConfigs :
         LET r == trackmcp(servers, trackers, s, cfg)
         IN  /\ servers' = r.servers
             /\ trackers' = r.trackers
             /\ serverCall' = [op |-> "trackmcp", server |-> s,
                               returned |-> r.returned, outcome |-> NoObject]
    /\ UNCHANGED <<now, config, randomStream, randomCalls, activeSpans,
                   telemetryEvents, spans, inv, contexts, client>>
    /\ UNCHANGED <<hookVars, injectorVars, errorVars, telemetryVars,
                   apiVars>>

\* server.setRequestHandler(schema, handler)
SetRequestHandler(s) ==
    /\ servers' = [servers EXCEPT ![s] = setRequestHandler(servers[s])]
    /\ serverCall' = [op |-> "setRequestHandler", server |-> s,
                      returned |-> 0, outcome |-> NoObject]
    /\ UNCHANGED <<now, config, randomStream, randomCalls, activeSpans,
                   telemetryEvents, spans, inv, contexts, client, trackers>>
    /\ UNCHANGED <<hookVars, injectorVars, errorVars, telemetryVars,
                   apiVars>>

\* a request is dispatched to the handler registered on server s, and the
\* handler settles
Serve(s) ==
    /\ servers[s].handler.registered
    /\ randomCalls + Len(servers[s].handler.chain) <= MaxInvocations
    /\ \E request \in ListRequests, settled \in HandlerOutcomes :
         LET chain == servers[s].handler.chain
             r == callHandler(trackers, chain, 1, request, settled, now,
                              [k \in DOMAIN chain |->
                                 randomStream[randomCalls + k]])
         IN  /\ trackers' = r.trackers
             /\ randomCalls' = randomCalls + Len(chain)
             /\ serverCall' = [op |-> "request", server |-> s,
                               returned |-> 0, outcome |-> r.outcome]
    /\ UNCHANGED <<now, config, randomStream, activeSpans,
                   telemetryEvents, spans, inv, contexts, client, servers>>
    /\ UNCHANGED <<hookVars, injectorVars, errorVars, telemetryVars,
                   apiVars>>

\* getTracker(server).shutdown() on a tracked server
ShutdownTracker(s) ==
    /\ getTracker(servers[s]) # NoObject
    /\ LET n == getTracker(servers[s]).id
       IN  trackers' = [trackers EXCEPT ![n].state = shutdown(@)]
    /\ serverCall' = [op |-> "shutdown", server |-> s,
                      returned |-> 0, outcome |-> NoObject]
    /\ UNCHANGED <<now, config, randomStream, randomCalls, activeSpans,
                   telemetryEvents, spans, inv, contexts, client, servers>>
    /\ UNCHANGED <<hookVars, injectorVars, errorVars, telemetryVars,
                   apiVars>>

NextServers ==
    \/ \E s \in Servers : Trackmcp(s)
    \/ \E s \in Servers : SetRequestHandler(s)
    \/ \E s \in Servers : Serve(s)
    \/ \E s \in Servers : ShutdownTracker(s)

SpecServers == InitServers /\ [][NextServers]_vars

\* the step is an operation on server s
OperatesOn(s) == serverVars' # serverVars /\ serverCall'.server = s

\* the step is a trackmcp call on server s
Tracks(s) ==
    /\ OperatesOn(s)
    /\ serverCall'.op = "trackmcp"
    /\ Len(trackers') = Len(trackers) + 1

\* no trackmcp call was made on server s
NeverWrapped(s) == \A n \in DOMAIN trackers : trackers[n].server # s

C30_EndAttributeIsStartedMethod ==
    [][\A i \in Invocations :
          Completes(i) /\ OperationId(i) \in DOMAIN activeSpans =>
             /\ spans[inv[i].span].attributes.mcp_method =
                  inv[i].context.metadata.method
             /\ spans'[inv[i].span].ended = 1
             /\ spans'[inv[i].span].attributes.mcp_method =
                  inv[i].context.metadata.method]_vars

\* ------------------------------------------------------------------- C31
\* the MethodResults a caller can hand to endMCPSpan: the caller measures
\* the duration and stamps the result itself
GivenResults ==
    { [result EXCEPT !.timestamp = t] :
        result \in ClientResults, t \in 0..MaxTime }

\* C31: the request-end event that endMCPSpan appends for a live operation
\* mirrors the result it was given: the operation id is the ended one, and
\* success, duration, error and timestamp are the result's own.
C31_EndEventMirrorsResult ==
    \A operationId \in DOMAIN activeSpans, result \in GivenResults :
        LET r == endMCPSpan(TrackerState, config, operationId, result, NoFault)
            events == r.tracker.telemetryEvents
            event == events[Len(events)]
        IN  /\ ~r.threw
            /\ Len(events) = Len(telemetryEvents) + 1
            /\ SubSeq(events, 1, Len(telemetryEvents)) = telemetryEvents
            /\ event.type = "request_end"
            /\ event.data.operationId = operationId
            /\ event.data.success = result.success
            /\ event.data.duration = result.duration
            /\ event.data.error = result.error
            /\ event.timestamp = result.timestamp

\* C31 witness: a client has ended a live span with a failed result, and
\* the log ends with that failure's request-end event
C31_Witness ==
    /\ client.op = "endMCPSpan"
    /\ client.live
    /\ ~client.threw
    /\ Len(telemetryEvents) > 0
    /\ LET event == telemetryEvents[Len(telemetryEvents)]
       IN  /\ event.type = "request_end"
           /\ event.data.operationId = client.operationId
           /\ ~event.data.success
           /\ event.data.duration = MaxDuration
           /\ event.data.error # NoObject
    /\ activeSpans # << >>

\* ------------------------------------- the instrument* methods driven
\* the hooks registered on the tracker before the calls are made
HookLists ==
    { << >>,
      <<[id |-> "hook-quiet", beforeMethod |-> "returns",
         afterMethod |-> "returns", onError |-> "returns"]>>,
      <<[id |-> "hook-failing", beforeMethod |-> "throws",
         afterMethod |-> "rejects", onError |-> "throws"],
        [id |-> "hook-after", beforeMethod |-> "none",
         afterMethod |-> "returns", onError |-> "none"]>> }

InitInstrumentation ==
    /\ now = 0
    /\ config \in TrackConfigs
    /\ randomStream = [k \in 1..(MaxInvocations + MaxSpans + MaxCalls) |-> k]
    /\ randomCalls = 0
    /\ activeSpans = << >>
    /\ telemetryEvents = << >>
    /\ spans = << >>
    /\ inv = [i \in Invocations |-> Idle]
    /\ contexts = << >>
    /\ client = [op |-> Undefined, operationId |-> UnknownOperationId,
                 live |-> FALSE, threw |-> FALSE]
    /\ hooks \in HookLists
    /\ run = NoRun
    /\ injector = ContextInjectionMiddleware(config.contextInjection)
    /\ processed = NoCall
    /\ errorHandler = MCPErrorHandler
    /\ handled = NotHandled
    /\ providers = <<ConsoleTelemetryProvider>>
    /\ memoryOptions = NoObject
    /\ telemetryCall = NoTelemetryCall
    /\ servers = [s \in Servers |-> Server]
    /\ trackers = << >>
    /\ serverCall = NoServerCall
    /\ InitApi

\* instrumentation.instrumentToolsList(handler): call c runs up to the
\* await of the before hooks
Instrument(c) ==
    /\ calls[c].pc = "idle"
    /\ \A b \in 1..(c - 1) : calls[b].pc # "idle"
    /\ \E handler \in HandlerOutcomes :
         LET r == instrumentMethodEnter(TrackerState, methodContexts, config,
                                        hooks, "tools/list", Undefined,
                                        NoObject, now, NextRandom)
         IN  /\ SetTracker(r.tracker)
             /\ methodContexts' = r.methodContexts
             /\ calls' = [calls EXCEPT ![c] =
                   [pc |-> "beforeHooks", context |-> r.context,
                    span |-> r.span, handler |-> handler, steps |-> r.steps,
                    outcome |-> NoObject]]
    /\ randomCalls' = randomCalls + 1
    /\ UNCHANGED <<now, config, randomStream, inv, contexts, client>>
    /\ UNCHANGED <<hookVars, injectorVars, errorVars, telemetryVars,
                   serverVars, utilityVars>>

\* the before hooks of call c are through: `await handler()`
CallHandler(c) ==
    /\ calls[c].pc = "beforeHooks"
    /\ calls' = [calls EXCEPT ![c].pc = "handler",
                              ![c].steps = Append(@, Step("handler", Undefined))]
    /\ UNCHANGED <<now, config, randomStream, randomCalls, activeSpans,
                   telemetryEvents, spans, inv, contexts, client,
                   methodContexts>>
    /\ UNCHANGED <<hookVars, injectorVars, errorVars, telemetryVars,
                   serverVars, utilityVars>>

\* the handler of call c settles: the span is ended and the after or error
\* hooks are awaited
SettleCall(c) ==
    /\ calls[c].pc = "handler"
    /\ LET r == instrumentMethodSettle(TrackerState, config, hooks,
                                       calls[c].context, calls[c].handler, now)
       IN  /\ SetTracker(r.tracker)
           /\ calls' = [calls EXCEPT ![c].pc = "lastHooks",
                                     ![c].steps = @ \o r.steps]
    /\ UNCHANGED <<now, config, randomStream, randomCalls, inv, contexts,
                   client, methodContexts>>
    /\ UNCHANGED <<hookVars, injectorVars, errorVars, telemetryVars,
                   serverVars, utilityVars>>

\* the after or error hooks of call c are through: the call returns or
\* rethrows, and its finally block runs
Finish(c) ==
    /\ calls[c].pc = "lastHooks"
    /\ LET r == instrumentMethodFinally(methodContexts, calls[c].context,
                                        calls[c].handler)
       IN  /\ methodContexts' = r.methodContexts
           /\ calls' = [calls EXCEPT ![c].pc = "done",
                                     ![c].outcome = r.outcome]
    /\ UNCHANGED <<now, config, randomStream, randomCalls, activeSpans,
                   telemetryEvents, spans, inv, contexts, client>>
    /\ UNCHANGED <<hookVars, injectorVars, errorVars, telemetryVars,
                   serverVars, utilityVars>>

NextInstrumentation ==
    \/ Tick
    \/ \E c \in 1..MaxCalls : Instrument(c)
    \/ \E c \in 1..MaxCalls : CallHandler(c)
    \/ \E c \in 1..MaxCalls : SettleCall(c)
    \/ \E c \in 1..MaxCalls : Finish(c)
    \/ Shutdown

SpecInstrumentation == InitInstrumentation /\ [][NextInstrumentation]_vars

\* ------------------------------------------------------------------- C32
\* the steps of the callbacks of a kind that the hooks have, in order
CallbackSteps(hs, callback) ==
    LET having == SelectSeq(hs, LAMBDA h : h[callback] # "none")
    IN  [k \in DOMAIN having |-> Step(callback, having[k].id)]

\* the lifecycle of one call: span, before hooks, handler, end of the span,
\* then the after hooks or the error hooks
Lifecycle(hs, success) ==
    <<Step("startMCPSpan", Undefined)>> \o
    CallbackSteps(hs, "beforeMethod") \o
    <<Step("handler", Undefined), Step("endMCPSpan", Undefined)>> \o
    CallbackSteps(hs, IF success THEN "afterMethod" ELSE "onError")

\* the handler of call c settles and the call goes on to its last hooks
CallSettles(c) == calls[c].pc = "handler" /\ calls'[c].pc = "lastHooks"

\* call c returns or rethrows
CallFinishes(c) == calls[c].pc = "lastHooks" /\ calls'[c].pc = "done"

CallOperationId(c) == calls[c].context.operationId

\* the handler of call c returns
Succeeds(c) == calls[c].handler.kind = "return"

\* the settling of call c has recorded exactly one request-end event, of
\* its operation and its outcome, and has closed its span
EndRecorded(c) ==
    /\ Len(telemetryEvents') = Len(telemetryEvents) + 1
    /\ Cardinality(EventsOf(telemetryEvents', "request_end",
                            CallOperationId(c))) = 1
    /\ LET event == telemetryEvents'[Len(telemetryEvents')]
       IN  /\ event.type = "request_end"
           /\ event.data.operationId = CallOperationId(c)
           /\ event.data.success = Succeeds(c)
    /\ spans'[calls[c].span].ended = 1
    /\ spans'[calls[c].span].status.code =
          IF Succeeds(c) THEN "OK" ELSE "ERROR"
    /\ CallOperationId(c) \notin DOMAIN activeSpans'

\* call c has followed the lifecycle, hands its caller the handler's result
\* or the handler's error, and has left the in-flight context map
Finished(c) ==
    /\ calls'[c].steps = Lifecycle(hooks, Succeeds(c))
    /\ calls'[c].outcome = calls[c].handler
    /\ CallOperationId(c) \notin DOMAIN methodContexts'

\* C32 as stated: every call of an instrument* method opens context and
\* span, runs the before hooks, the handler, ends the span with the
\* handler's success or failure, runs the after or error hooks and returns
\* the result or rethrows the error; in both paths exactly one request-end
\* event is recorded, the span is closed and the context map no longer
\* holds the operation.
C32_OneLifecyclePerCall ==
    [][\A c \in 1..MaxCalls :
          /\ CallSettles(c) => EndRecorded(c)
          /\ CallFinishes(c) => Finished(c)]_vars

\* C32 amended: the same, the request-end event being recorded when the
\* span of the call is still live as its handler settles; when
\* tracker.shutdown() ran while the call was in flight, the settling
\* records no event and leaves the span as shutdown ended it.
C32_LifecycleUnlessShutdown ==
    [][\A c \in 1..MaxCalls :
          /\ CallSettles(c) /\ CallOperationId(c) \in DOMAIN activeSpans =>
                EndRecorded(c)
          /\ CallSettles(c) /\ CallOperationId(c) \notin DOMAIN activeSpans =>
                /\ telemetryEvents' = telemetryEvents
                /\ spans' = spans
                /\ spans[calls[c].span].ended = 1
                /\ activeSpans' = activeSpans
          /\ CallFinishes(c) => Finished(c)
          /\ calls[c].pc = "idle" /\ calls'[c].pc # "idle" =>
                /\ calls'[c].context.operationId \in DOMAIN methodContexts'
                /\ calls'[c].context.operationId \in DOMAIN activeSpans'
                /\ spans'[calls'[c].span].ended = 0]_vars

\* C32 witness: with hooks registered, one call has rethrown its handler's
\* error after the error hooks, its request-end event is in the log, and
\* another call has returned its handler's result after the after hooks
C32_Witness ==
    /\ Len(hooks) = 2
    /\ \E c, d \in 1..MaxCalls :
         /\ calls[c].pc = "done"
         /\ calls[c].outcome.kind = "throw"
         /\ calls[c].steps[Len(calls[c].steps)] =
               Step("onError", "hook-failing")
         /\ \E k \in EventsOf(telemetryEvents, "request_end",
                              calls[c].context.operationId) :
               ~telemetryEvents[k].data.success
         /\ calls[d].pc = "done"
         /\ calls[d].outcome.kind = "return"
         /\ Len(calls[d].steps) = 6
         /\ Cardinality(EventsOf(telemetryEvents, "request_end",
                                 calls[d].context.operationId)) = 1
    /\ methodContexts = << >>
    /\ activeSpans = << >>

\* ----------------------------------------------- the boundary driven
\* the operations run in the boundary: one that returns, and those that
\* throw a plain error or an MCPError
Operations ==
    {Returns(value) : value \in HandlerResults} \cup
    {Throws(error) : error \in StormErrors \cup GivenErrors}

\* errorBoundary.execute(operation) or errorBoundary.executeSync(operation)
BoundaryCall(op, operation) ==
    /\ SumCounts(errorHandler.errorCounts, DOMAIN errorHandler.errorCounts)
         < MaxClassified
    /\ LET r == IF op = "execute"
                THEN execute(errorHandler, operation, now)
                ELSE executeSync(errorHandler, operation, now)
       IN  /\ errorHandler' = r.handler
           /\ boundaryCall' = [op |-> op, operation |-> operation,
                               outcome |-> r.outcome]
    /\ UNCHANGED <<telemetryVars, serverVars, instrumentationVars,
                   configurationVars, managerVars, timerVars>>
    /\ UNCHANGED <<now, config, randomStream, randomCalls, activeSpans,
                   telemetryEvents, spans, inv, contexts, client, hookVars,
                   injectorVars, handled>>

Execute == \E operation \in Operations : BoundaryCall("execute", operation)

ExecuteSync ==
    \E operation \in Operations : BoundaryCall("executeSync", operation)

NextBoundary == Execute \/ ExecuteSync

SpecBoundary == InitErrors /\ [][NextBoundary]_vars

\* ------------------------------------------------------------------- C33
\* the MCPError the handler makes of an error: the error itself when it is
\* an MCPError, its classification otherwise
Classified(error, t) ==
    IF IsMCPError(error) THEN error ELSE convertToMCPError(error, t)

\* C33: execute and executeSync both return the operation's result when it
\* succeeds and both throw an MCPError to the caller when it fails: the
\* classification of the failure, or the same instance when the failure is
\* an MCPError already.
C33_BoundaryThrowsMCPError ==
    boundaryCall.op # Undefined =>
        IF boundaryCall.operation.kind = "return"
        THEN boundaryCall.outcome = Returns(boundaryCall.operation.value)
        ELSE /\ boundaryCall.outcome.kind = "throw"
             /\ IsMCPError(boundaryCall.outcome.value)
             /\ boundaryCall.outcome.value =
                   Classified(boundaryCall.operation.value, now)

\* ------------------------------------------ the console sink at its cap
\* a console sink that has recorded the events of earlier operations,
\* Headroom or fewer short of its cap
InitConsole ==
    /\ now = 0
    /\ config = [projectId |-> Undefined, defaultAttributes |-> << >>,
                 contextInjection |-> [parameterName |-> "context"]]
    /\ randomStream = [k \in 1..(MaxInvocations + MaxSpans) |-> k]
    /\ randomCalls = 0
    /\ activeSpans = << >>
    /\ telemetryEvents = << >>
    /\ spans = << >>
    /\ inv = [i \in Invocations |-> Idle]
    /\ contexts = << >>
    /\ client = [op |-> Undefined, operationId |-> UnknownOperationId,
                 live |-> FALSE, threw |-> FALSE]
    /\ hooks = << >>
    /\ run = NoRun
    /\ injector = ContextInjectionMiddleware(config.contextInjection)
    /\ processed = NoCall
    /\ errorHandler = MCPErrorHandler
    /\ handled = NotHandled
    /\ memoryOptions = NoObject
    /\ \E n \in (ConsoleMaxEvents - Headroom)..ConsoleMaxEvents :
         providers = <<[ConsoleTelemetryProvider
                          EXCEPT !.events = EarlierEvents(n)]>>
    /\ telemetryCall = NoTelemetryCall
    /\ servers = [s \in Servers |-> Server]
    /\ trackers = << >>
    /\ serverCall = NoServerCall
    /\ InitApi

\* consoleProvider.recordEvent(event), until MaxRecorded events of the run
\* are the newest of the buffer
RecordOnConsole ==
    /\ LET events == providers[1].events
       IN  events[Len(events) - MaxRecorded + 1].timestamp < 0
    /\ \E event \in TelemetryEvents(now) :
         LET r == recordEvent(providers[1], event)
         IN  /\ providers' = <<r.provider>>
             /\ telemetryCall' = [op |-> "recordEvent", via |-> "sink",
                                  event |-> event, delivered |-> <<1>>,
                                  threw |-> r.threw]
    /\ UNCHANGED <<now, config, randomStream, randomCalls, activeSpans,
                   telemetryEvents, spans, inv, contexts, client,
                   memoryOptions>>
    /\ UNCHANGED <<hookVars, injectorVars, errorVars, serverVars, apiVars>>

NextConsole == RecordOnConsole \/ Tick

SpecConsole == InitConsole /\ [][NextConsole]_vars

\* ------------------------------------------------------------------- C34
\* C34: the console sink's buffer never holds more than 1,000 events once
\* recordEvent has returned; a recordEvent below the cap appends its event,
\* and the recordEvent that would make the buffer exceed 1,000 leaves the
\* 500 most recently recorded events, the new one last, in the order they
\* were recorded.
C34_ConsoleBufferBounded ==
    [][telemetryCall'.op = "recordEvent" /\ providers' # providers =>
          LET before == getEvents(providers[1])
              after == getEvents(providers'[1])
              recorded == Append(before, telemetryCall'.event)
          IN  /\ Len(after) <= 1000
              /\ Len(recorded) <= 1000 => after = recorded
              /\ Len(recorded) > 1000 =>
                    /\ Len(after) = 500
                    /\ \A k \in 1..500 :
                          after[k] = recorded[Len(recorded) - 500 + k]
                    /\ after[500] = telemetryCall'.event]_vars

\* C34 witness: a recordEvent on a full buffer has cut it to 500 events, the
\* oldest of them an event of the earlier operations
C34_Witness ==
    /\ telemetryCall.op = "recordEvent"
    /\ providers[1].kind = "console"
    /\ Len(providers[1].events) = ConsoleKeptEvents
    /\ providers[1].events[1].timestamp < 0
    /\ providers[1].events[ConsoleKeptEvents] = telemetryCall.event

\* ----------------------------- the tracker's events forwarded to sinks
\* a tracker, and a console sink and a memory sink that are given the
\* tracker's events
InitFeed ==
    /\ now = 0
    /\ config \in TrackConfigs
    /\ randomStream = [k \in 1..(MaxInvocations + MaxSpans) |-> k]
    /\ randomCalls = 0
    /\ activeSpans = << >>
    /\ telemetryEvents = << >>
    /\ spans = << >>
    /\ inv = [i \in Invocations |-> Idle]
    /\ contexts = << >>
    /\ client = [op |-> Undefined, operationId |-> UnknownOperationId,
                 live |-> FALSE, threw |-> FALSE]
    /\ hooks = << >>
    /\ run = NoRun
    /\ injector = ContextInjectionMiddleware(config.contextInjection)
    /\ processed = NoCall
    /\ errorHandler = MCPErrorHandler
    /\ handled = NotHandled
    /\ providers = <<ConsoleTelemetryProvider,
                     MemoryTelemetryProvider(NoObject)>>
    /\ memoryOptions = NoObject
    /\ telemetryCall = NoTelemetryCall
    /\ servers = [s \in Servers |-> Server]
    /\ trackers = << >>
    /\ serverCall = NoServerCall
    /\ InitApi

\* events.forEach(event => sinks.forEach(sink => sink.recordEvent(event)))
RECURSIVE recordAll(_, _)
recordAll(ps, events) ==
    IF events = << >> THEN ps
    ELSE recordAll(Composite_recordEvent(ps, events[1]).providers,
                   Tail(events))

\* the events of the tracker's log that the step has appended are recorded
\* on both sinks
Forward(T) ==
    LET log == getTelemetryEvents(T)
        new == SubSeq(log, Len(telemetryEvents) + 1, Len(log))
    IN  /\ providers' = recordAll(providers, new)
        /\ telemetryCall' =
              IF new = << >> THEN telemetryCall
              ELSE [op |-> "recordEvent", via |-> "sink",
                    event |-> new[Len(new)],
                    delivered |-> [k \in DOMAIN providers |-> k],
                    threw |-> FALSE]

\* context = tracker.createOperationContext(method);
\* tracker.startMCPSpan(method, context); the new events go to the sinks
StartSpanFed ==
    /\ Len(spans) < MaxSpans
    /\ \E method \in Methods :
         LET context == createOperationContext(method, Undefined, NoObject,
                                               now, NextRandom)
             r == startMCPSpan(TrackerState, config, method, context, now,
                               NoFault)
         IN  /\ contexts' = Append(contexts, context)
             /\ SetTracker(r.tracker)
             /\ Called("startMCPSpan", context.operationId,
                       context.operationId \in DOMAIN activeSpans, r.threw)
             /\ Forward(r.tracker)
    /\ randomCalls' = randomCalls + 1
    /\ UNCHANGED <<now, config, randomStream, inv, memoryOptions>>
    /\ UNCHANGED <<hookVars, injectorVars, errorVars, serverVars, apiVars>>

\* tracker.endMCPSpan(operationId, result); the new events go to the sinks
EndSpanFed ==
    /\ \E operationId \in ClientOperationIds, result \in ClientResults :
         LET r == endMCPSpan(TrackerState, config, operationId, result, NoFault)
         IN  /\ SetTracker(r.tracker)
             /\ Called("endMCPSpan", operationId,
                       operationId \in DOMAIN activeSpans, r.threw)
             /\ Forward(r.tracker)
    /\ UNCHANGED <<now, config, randomStream, randomCalls, inv, contexts,
                   memoryOptions>>
    /\ UNCHANGED <<hookVars, injectorVars, errorVars, serverVars, apiVars>>

NextFeed ==
    \/ StartSpanFed
    \/ EndSpanFed

SpecFeed == InitFeed /\ [][NextFeed]_vars

\* ------------------------------------------------------------------- C35
\* the sink has been given the events of the tracker's log, in order
FedAs(p) == getEvents(p) = getTelemetryEvents(TrackerState)

\* C35: a console sink and a memory sink that were fed the events of the
\* tracker's log report the tracker's totalRequests, successfulRequests,
\* failedRequests and averageDuration, and in the sinks and in the tracker
\* totalRequests = successfulRequests + failedRequests.
C35_SinksDeriveTrackerMetrics ==
    LET ofTracker == getCurrentMetrics(TrackerState, now)
    IN  /\ ofTracker.totalRequests =
              ofTracker.successfulRequests + ofTracker.failedRequests
        /\ \A k \in DOMAIN providers :
              LET ofSink == getMetrics(providers[k], now)
              IN  /\ ofSink.totalRequests =
                        ofSink.successfulRequests + ofSink.failedRequests
                  /\ FedAs(providers[k]) =>
                        /\ ofSink.totalRequests = ofTracker.totalRequests
                        /\ ofSink.successfulRequests =
                              ofTracker.successfulRequests
                        /\ ofSink.failedRequests = ofTracker.failedRequests
                        /\ RationalEqual(ofSink.averageDuration,
                                         ofTracker.averageDuration)

\* C35 witness: both sinks hold the tracker's log, in which one request
\* succeeded and one failed, one of them with duration 0 and one with a
\* longer duration
C35_Witness ==
    /\ \A k \in DOMAIN providers : FedAs(providers[k])
    /\ {providers[k].kind : k \in DOMAIN providers} = {"console", "memory"}
    /\ getCurrentMetrics(TrackerState, now).successfulRequests = 1
    /\ getCurrentMetrics(TrackerState, now).failedRequests = 1
    /\ getCurrentMetrics(TrackerState, now).averageDuration.num > 0
    /\ \E k \in DOMAIN telemetryEvents :
          /\ telemetryEvents[k].type = "request_end"
          /\ telemetryEvents[k].data.duration = 0

\* ------------------------------------------ construction from settings
\* process.env: the variables of three settings, unset, empty or set
Environments ==
    [OTEL_SERVICE_NAME : {Undefined, "", "env-service"},
     NEONFLARE_TRACING_ENABLED : {Undefined, "true", "false"},
     NEONFLARE_REQUEST_TIMEOUT : {Undefined, "5000", "250ms"}]

\* the configuration objects passed: every part of one that sets the three
\* settings
ExplicitConfig ==
    [serviceName |-> "my-service", tracingEnabled |-> FALSE,
     requestTimeout |-> 1000]

GivenConfigs ==
    { [k \in keys |-> ExplicitConfig[k]] : keys \in SUBSET DOMAIN ExplicitConfig }

\* new ConfigurationManager(given) in a process with the environment env
NewConfigurationManager ==
    \E given \in GivenConfigs, env \in Environments :
        /\ configuration' = [class |-> "ConfigurationManager",
                             given |-> given, env |-> env,
                             config |-> ConfigurationManager(given, env)]
        /\ UNCHANGED <<now, config, randomStream, randomCalls, activeSpans,
                       telemetryEvents, spans, inv, contexts, client,
                       hookVars, injectorVars, errorVars, telemetryVars,
                       serverVars, instrumentationVars, boundaryVars,
                       managerVars, timerVars>>

\* new MCPTracker(given) in a process with the environment env
NewMCPTracker ==
    \E given \in GivenConfigs, env \in Environments :
        /\ configuration' = [class |-> "MCPTracker",
                             given |-> given, env |-> env,
                             config |-> MCPTrackerConfig(given, env)]
        /\ UNCHANGED <<now, config, randomStream, randomCalls, activeSpans,
                       telemetryEvents, spans, inv, contexts, client,
                       hookVars, injectorVars, errorVars, telemetryVars,
                       serverVars, instrumentationVars, boundaryVars,
                       managerVars, timerVars>>

NextConfiguration == NewConfigurationManager \/ NewMCPTracker

SpecConfiguration == Init /\ [][NextConfiguration]_vars

\* ------------------------------------------------------------------- C36
\* the environment variable of a setting
EnvironmentVariable(k) ==
    CASE k = "serviceName" -> "OTEL_SERVICE_NAME"
      [] k = "tracingEnabled" -> "NEONFLARE_TRACING_ENABLED"
      [] k = "requestTimeout" -> "NEONFLARE_REQUEST_TIMEOUT"

\* the value the environment gives a setting
EnvironmentValue(k, env) ==
    CASE k = "serviceName" -> env[EnvironmentVariable(k)]
      [] k = "tracingEnabled" -> env[EnvironmentVariable(k)] = "true"
      [] k = "requestTimeout" -> ParseInt(env[EnvironmentVariable(k)])

\* defaults < environment < explicit argument
Layered(k, given, env) ==
    IF k \in DOMAIN given THEN given[k]
    ELSE IF Truthy(env[EnvironmentVariable(k)]) THEN EnvironmentValue(k, env)
    ELSE DefaultConfig[k]

\* C36: configuration is layered defaults < environment < explicit
\* argument: a setting passed explicitly has the explicit value, whatever
\* the environment holds; a setting not passed has the environment's value
\* when its variable is set, and its default otherwise.
C36_ExplicitOverEnvironment ==
    configuration.class # Undefined =>
        \A k \in DOMAIN ExplicitConfig :
            configuration.config[k] =
                Layered(k, configuration.given, configuration.env)

\* -------------------------------- the global telemetry manager driven
\* the events the sinks of a manager retain
Retained(m) == flatMapEvents(m.providers)

\* the number of events retained by manager m of ms, 0 when m is none
RetainedBy(ms, m) == IF m \in DOMAIN ms THEN Len(Retained(ms[m])) ELSE 0

\* getTelemetryManager()
GetTelemetryManager ==
    /\ globalTelemetryManager # 0 \/ Len(managers) < MaxManagers
    /\ LET r == getTelemetryManager(managers, globalTelemetryManager)
       IN  /\ managers' = r.managers
           /\ globalTelemetryManager' = r.global
           /\ managerCall' = [op |-> "getTelemetryManager",
                              returned |-> r.returned,
                              retained |-> RetainedBy(managers,
                                                      globalTelemetryManager)]
    /\ UNCHANGED <<now, config, randomStream, randomCalls, activeSpans,
                   telemetryEvents, spans, inv, contexts, client,
                   hookVars, injectorVars, errorVars, telemetryVars,
                   serverVars, instrumentationVars, boundaryVars,
                   configurationVars, timerVars>>

\* setTelemetryManager(manager), the manager being one made before or
\* new DefaultTelemetryManager([new MemoryTelemetryProvider()])
SetTelemetryManager ==
    /\ \E m \in 1..(Len(managers) + 1) :
         LET made == IF m > Len(managers)
                     THEN Append(managers,
                            DefaultTelemetryManagerOf(
                              <<MemoryTelemetryProvider(NoObject)>>))
                     ELSE managers
             r == setTelemetryManager(made, globalTelemetryManager, m)
         IN  /\ m <= MaxManagers
             /\ managers' = r.managers
             /\ globalTelemetryManager' = r.global
             /\ managerCall' = [op |-> "setTelemetryManager", returned |-> m,
                                retained |-> RetainedBy(managers, m)]
    /\ UNCHANGED <<now, config, randomStream, randomCalls, activeSpans,
                   telemetryEvents, spans, inv, contexts, client,
                   hookVars, injectorVars, errorVars, telemetryVars,
                   serverVars, instrumentationVars, boundaryVars,
                   configurationVars, timerVars>>

\* resetTelemetryManager()
ResetTelemetryManager ==
    /\ LET r == resetTelemetryManager(managers, globalTelemetryManager)
       IN  /\ managers' = r.managers
           /\ globalTelemetryManager' = r.global
           /\ managerCall' = [op |-> "resetTelemetryManager",
                              returned |-> globalTelemetryManager,
                              retained |-> RetainedBy(managers,
                                                      globalTelemetryManager)]
    /\ UNCHANGED <<now, config, randomStream, randomCalls, activeSpans,
                   telemetryEvents, spans, inv, contexts, client,
                   hookVars, injectorVars, errorVars, telemetryVars,
                   serverVars, instrumentationVars, boundaryVars,
                   configurationVars, timerVars>>

\* the events retained by the sinks of all the managers made
RECURSIVE RetainedByAll(_)
RetainedByAll(ms) ==
    IF ms = << >> THEN 0
    ELSE Len(Retained(ms[1])) + RetainedByAll(Tail(ms))

\* getTelemetryManager().recordEvent(event) while there is a global
\* instance, until MaxRecorded events are retained
RecordOnManager ==
    /\ globalTelemetryManager # 0
    /\ RetainedByAll(managers) < MaxRecorded
    /\ \E event \in {e \in TelemetryEvents(now) : e.type = "request_start"} :
         managers' = [managers EXCEPT ![globalTelemetryManager].providers =
                         Manager_recordEvent(@, event).providers]
    /\ managerCall' = [op |-> "recordEvent",
                       returned |-> globalTelemetryManager,
                       retained |-> RetainedBy(managers,
                                               globalTelemetryManager)]
    /\ UNCHANGED <<now, config, randomStream, randomCalls, activeSpans,
                   telemetryEvents, spans, inv, contexts, client,
                   hookVars, injectorVars, errorVars, telemetryVars,
                   serverVars, instrumentationVars, boundaryVars,
                   configurationVars, timerVars, globalTelemetryManager>>

NextManager ==
    \/ GetTelemetryManager
    \/ SetTelemetryManager
    \/ ResetTelemetryManager
    \/ RecordOnManager

SpecManager == Init /\ [][NextManager]_vars

\* ------------------------------------------------------------------- C37
\* the step is a call of the function
Calls(op) == managerVars' # managerVars /\ managerCall'.op = op

\* C37: getTelemetryManager() returns the global instance when there is
\* one, and otherwise makes a manager with one empty console sink, which is
\* then the global instance; the instance changes only by that, by
\* setTelemetryManager and by resetTelemetryManager; resetTelemetryManager
\* shuts down the sinks of the current instance, which retain no events
\* afterwards, and leaves no instance, so that the next getTelemetryManager()
\* makes a fresh one.
C37_LazySingleInstance ==
    [][/\ Calls("getTelemetryManager") /\ globalTelemetryManager # 0 =>
             /\ managerCall'.returned = globalTelemetryManager
             /\ globalTelemetryManager' = globalTelemetryManager
             /\ managers' = managers
       /\ Calls("getTelemetryManager") /\ globalTelemetryManager = 0 =>
             /\ managerCall'.returned = Len(managers) + 1
             /\ globalTelemetryManager' = managerCall'.returned
             /\ managers' = Append(managers,
                                   [providers |->
                                      <<[kind |-> "console",
                                         events |-> << >>]>>])
       /\ globalTelemetryManager' # globalTelemetryManager =>
             \/ managerCall'.op \in {"setTelemetryManager",
                                     "resetTelemetryManager"}
             \/ managerCall'.op = "getTelemetryManager"
                /\ globalTelemetryManager = 0
       /\ managerCall'.op = "resetTelemetryManager"
          /\ globalTelemetryManager # 0 =>
             /\ globalTelemetryManager' = 0
             /\ Retained(managers'[globalTelemetryManager]) = << >>
             /\ \A m \in DOMAIN managers :
                   m # globalTelemetryManager => managers'[m] = managers[m]]_vars

\* C37 witness: resetTelemetryManager has shut down the second global
\* instance, whose sinks retained events, and no instance is left
C37_Witness ==
    /\ managerCall.op = "resetTelemetryManager"
    /\ managerCall.returned = 2
    /\ managerCall.retained > 0
    /\ globalTelemetryManager = 0
    /\ Len(managers) = 2
    /\ managers[2] = DefaultTelemetryManager
    /\ Retained(managers[1]) # << >>

\* ------------------------------------------------------------------- C38
\* C38: when a projectId is configured, every event of the tracker's log is
\* a request_start or a request_end event whose data.projectId is the
\* configured projectId.
C38_EventsCarryProjectId ==
    Truthy(config.projectId) =>
        \A k \in DOMAIN telemetryEvents :
            /\ telemetryEvents[k].type \in {"request_start", "request_end"}
            /\ telemetryEvents[k].data.projectId = config.projectId

\* C38 witness: with a projectId configured the log holds a request_start
\* event and the request_end events of a success and of a failure
C38_Witness ==
    /\ config.projectId = "proj_test"
    /\ \E k \in DOMAIN telemetryEvents :
          telemetryEvents[k].type = "request_start"
    /\ \E k \in DOMAIN telemetryEvents :
          /\ telemetryEvents[k].type = "request_end"
          /\ telemetryEvents[k].data.success
    /\ \E k \in DOMAIN telemetryEvents :
          /\ telemetryEvents[k].type = "request_end"
          /\ ~telemetryEvents[k].data.success

\* ------------------------------------------------------------------- C39
\* the number of times name occurs in a list
Occurrences(list, name) == Cardinality({k \in DOMAIN list : list[k] = name})

\* the required list of a schema, empty when the schema has none
RequiredOf(schema) ==
    IF schema # NoObject /\ "required" \in DOMAIN schema
    THEN schema.required ELSE << >>

\* C39: an enabled injection with required: true returns a schema whose
\* required list is the input's list (the empty list if it has none) with
\* the parameter name appended unless the list already holds it, so that
\* the name is in the list exactly once, and injecting into the returned
\* schema again leaves the list as it is; with required: false a required
\* list of the input schema is returned unchanged.
C39_RequiredListIdempotent ==
    LET cfg == processed.input.config
        c == Spread(DefaultInjection, cfg)
        given == processed.input.schema
        out == processed.output.schema
        again == injectContextIntoSchema(out, cfg).schema
    IN  processed.op = "injectContextIntoSchema" /\ c.enabled =>
          IF c.required
          THEN /\ "required" \in DOMAIN out
               /\ Occurrences(out.required, c.parameterName) = 1
               /\ out.required =
                     IF Occurrences(RequiredOf(given), c.parameterName) > 0
                     THEN RequiredOf(given)
                     ELSE Append(RequiredOf(given), c.parameterName)
               /\ again.required = out.required
          ELSE given # NoObject /\ "required" \in DOMAIN given =>
                  /\ "required" \in DOMAIN out
                  /\ out.required = given.required

\* C39 witness: an injection with required: true into a schema whose
\* required list already holds the parameter name
C39_Witness ==
    /\ processed.op = "injectContextIntoSchema"
    /\ Spread(DefaultInjection, processed.input.config).required
    /\ Spread(DefaultInjection, processed.input.config).parameterName = "context"
    /\ processed.input.schema # NoObject
    /\ RequiredOf(processed.input.schema) = <<"query", "context">>
    /\ processed.output.schema.required = <<"query", "context">>

\* ------------------------------------------------- a timer, as it is used
\* the names given to marks
MarkNames == {"start", "fetched"}

\* a call on the timer: its arguments, whether it threw, the number it
\* returned, whether the timer had no mark (as after construction or reset)
\* and performance.now() at the call
TimerCall(op, from, to, r) ==
    timerCall' = [op |-> op, from |-> from, to |-> to, threw |-> r.threw,
                  value |-> r.value, fresh |-> timer.marks = << >>,
                  at |-> now]

TimerFrame ==
    UNCHANGED <<now, config, randomStream, randomCalls, activeSpans,
                telemetryEvents, spans, inv, contexts, client, hookVars,
                injectorVars, errorVars, telemetryVars, serverVars,
                instrumentationVars, boundaryVars, configurationVars,
                managerVars>>

\* new PerformanceTimer()
NewPerformanceTimer ==
    /\ timer' = PerformanceTimer(now)
    /\ TimerCall("constructor", Undefined, Undefined,
                 [threw |-> FALSE, value |-> 0])
    /\ TimerFrame

\* timer.mark(name)
Mark ==
    /\ \E name \in MarkNames :
          /\ timer' = mark(timer, name, now)
          /\ TimerCall("mark", name, Undefined, [threw |-> FALSE, value |-> 0])
    /\ TimerFrame

\* timer.measure(fromMark, toMark?)
Measure ==
    /\ \E from \in MarkNames, to \in MarkNames \cup {Undefined} :
          TimerCall("measure", from, to, measure(timer, from, to, now))
    /\ timer' = timer
    /\ TimerFrame

\* timer.measureFromStart(toMark?)
MeasureFromStart ==
    /\ \E to \in MarkNames \cup {Undefined} :
          TimerCall("measureFromStart", "start", to,
                    measureFromStart(timer, to, now))
    /\ timer' = timer
    /\ TimerFrame

\* timer.getElapsed()
GetElapsed ==
    /\ TimerCall("getElapsed", Undefined, Undefined,
                 [threw |-> FALSE, value |-> getElapsed(timer, now)])
    /\ timer' = timer
    /\ TimerFrame

\* timer.reset()
ResetTimer ==
    /\ timer' = reset(timer, now)
    /\ TimerCall("reset", Undefined, Undefined, [threw |-> FALSE, value |-> 0])
    /\ TimerFrame

NextTimer ==
    \/ Tick
    \/ NewPerformanceTimer
    \/ Mark
    \/ Measure
    \/ MeasureFromStart
    \/ GetElapsed
    \/ ResetTimer

SpecTimer == Init /\ [][NextTimer]_vars

\* ------------------------------------------------------------------- C40
\* C40: measureFromStart() on a timer that was just constructed or reset
\* does not throw and returns the time elapsed since the timer's start up
\* to the call; measure(from) throws only when no mark named from was set
\* since the timer was constructed or reset.
C40_MeasureFromStartNeverThrows ==
    /\ timerCall.op = "measureFromStart" /\ timerCall.fresh =>
          /\ ~timerCall.threw
          /\ timerCall.value = timerCall.at - timer.startTime
    /\ timerCall.op = "measure" /\ timerCall.threw =>
          timerCall.from \notin DOMAIN timer.marks

\* measureFromStart() is measure('start'): it throws unless the caller set
\* a mark named 'start' itself, and then it measures from that mark
MeasuresFromMarkNamedStart ==
    timerCall.op = "measureFromStart" =>
        /\ timerCall.threw <=> "start" \notin DOMAIN timer.marks
        /\ timerCall.fresh => timerCall.threw
        /\ ~timerCall.threw /\ timerCall.to = Undefined =>
              timerCall.value = timerCall.at - timer.marks["start"]

\* measure(from) throws exactly when no mark named from is set
MeasureThrowsWithoutMark ==
    timerCall.op = "measure" =>
        (timerCall.threw <=> timerCall.from \notin DOMAIN timer.marks)

====
